---- MODULE Spec2Model ----
(***************************************************************************)
(* Model of the MQTT stress kit of this repository:                        *)
(*   - MetricsAggregator, DeviceWorker, run_simulation, periodic_reporter  *)
(*     and orchestrate of scripts/DISPOSITIVOS MQTT/mqtt_stress_async.py,  *)
(*   - GlobalMetricsCollector of scripts/mqtt/metrics_server.py,           *)
(*   - classify_failure, StopSignal, StartCoordinator, SimLoop,            *)
(*     MetricsCollector and MetricsWriter of scripts/simcore.py as driven  *)
(*     by scripts/run_telemetry.py.                                        *)
(* The specifications of the module:                                       *)
(*   Spec          the MetricsAggregator called through its public         *)
(*                 methods;                                                *)
(*   SpecBreakdown the same, with device_breakdown read in every state;    *)
(*   SpecSummary   the same, with the dashboard thread reading summary();  *)
(*   SpecSnapshot  snapshot() after a list of recorded latencies;          *)
(*   SpecWorker    run_simulation with its DeviceWorker tasks;             *)
(*   SpecRun       the same without faults, with the periodic reporter     *)
(*                 and the CSV sink;                                       *)
(*   SpecSinks     the same with the event log too, in runs shorter than   *)
(*                 the report interval;                                    *)
(*   SpecStartup   the start of run_simulation: the checks of the          *)
(*                 arguments and the parsing of the ramp;                  *)
(*   SpecTelemetry run_telemetry.main with its SimLoop threads, and        *)
(*                 SpecTelemetryFair, where every thread is scheduled;     *)
(*   SpecClassify  classify_failure on each of its inputs;                 *)
(*   SpecOrchestrate  orchestrate and its shard processes, and             *)
(*                 SpecOrchestrateFair, where the orchestrator keeps       *)
(*                 running;                                                *)
(*   SpecCollector a shard's reporter and another shard posting to the     *)
(*                 GlobalMetricsCollector;                                 *)
(*   SpecCore      simcore.MetricsCollector called from worker threads     *)
(*                 while another thread takes a snapshot;                  *)
(*   SpecWriter    run_telemetry.main from its polling loop on, with the   *)
(*                 thread of MetricsWriter;                                *)
(*   SpecShards    the devices and the session names of the shards that    *)
(*                 orchestrate launches;                                   *)
(*   SpecSinksFaulty  SpecSinks with writes of the event log that fail;    *)
(*   SpecSinksFair a run of one launched worker with both sinks, where     *)
(*                 the event loop runs what is ready.                      *)
(* Times are integers: one unit is a clock tick of the model.              *)
(***************************************************************************)
EXTENDS Integers, Sequences, FiniteSets, TLC

\* ------------------------------------------------------------------ bounds
\* Number of MetricsAggregator method calls in one behaviour of Spec.
MaxOps == 4

\* The same, in the behaviours of SpecSummary (the dashboard thread runs too).
MaxOpsSummary == 2

\* The same, in the behaviours of SpecBreakdown.
MaxOpsBreakdown == 3

\* The simulated devices (device ids are unique: load_tokens_from_file takes
\* them from dict keys or list indices, generate_tokens from a range).
Devices == {"d1", "d2"}

\* Optional values: Python's None and a present value.
None == <<>>
Some(x) == <<x>>

\* Python truthiness of an Optional[str]: None and "" are falsy.
Truthy(reason) == reason /= None /\ reason[1] /= ""

\* Python's `reason or default`.
OrDefault(reason, default) == IF Truthy(reason) THEN reason[1] ELSE default

Max(a, b) == IF a >= b THEN a ELSE b
Min(a, b) == IF a <= b THEN a ELSE b

\* Counter / defaultdict(int): c[key] += n, creating the key when absent.
Incr(c, key, n) ==
    IF key \in DOMAIN c THEN [c EXCEPT ![key] = @ + n] ELSE c @@ (key :> n)

\* dict.get(key, 0)
GetOr0(c, key) == IF key \in DOMAIN c THEN c[key] ELSE 0

\* The empty dict / Counter.
EmptyMap == <<>>

VARIABLES
    metrics,        \* the MetricsAggregator object (a record of its fields); in
                    \* SpecTelemetry, SpecCore and SpecWriter the MetricsCollector
                    \* of simcore
    now,            \* utcnow(), in ticks since started_at
    stop_event,     \* the cancellation token (asyncio.Event of run_simulation)
    last_call,      \* Spec: the latest call made on the aggregator, with its arguments
    summary_pc,     \* Spec: where the dashboard thread is inside summary()
    snap,           \* Spec: the local `snap` of summary()
    summary_result, \* Spec: what summary() returned last (None before)
    \* run_simulation and its DeviceWorker tasks (SpecWorker)
    config,         \* the arguments of the run: backoff_base, backoff_max, ramp_sequence, ramp_wait
    main_pc,        \* where run_simulation is
    stage,          \* index in ramp_sequence of the ramp loop's current target
    launched,       \* run_simulation's `launched`
    stop_cause,     \* which stop_event.set() call raised cancellation
    pc,             \* per worker: the await DeviceWorker.run is suspended at
    connected,      \* per worker: local `connected`
    disconnect_reason, \* per worker: local `disconnect_reason`
    backoff,        \* per worker: local `backoff`
    sleep_for,      \* per worker: the argument of the latest asyncio.sleep
    pending_exc,    \* per worker: the exception leaving the `async with` body
    message_sequence, \* per worker: self._message_sequence
    attempts,       \* connection attempts the workers have made so far
    fail_streak,    \* per worker: failed attempts since the last successful connect
    open_sessions,  \* per worker: record_client_connected calls minus
                    \* record_client_disconnected calls
    ev_queue,       \* event_logger._queue
    ev_logged,      \* history: the records passed to event_logger.log(), in order
    \* run_telemetry.main and its SimLoop threads (SpecTelemetry)
    publish_interval, \* config.publish_interval, in clock ticks
    clock,          \* time.perf_counter(), in ticks
    tel_main,       \* where run_telemetry.main is
    loop_pc,        \* per SimLoop thread: where run is
    barrier_count,  \* threads that have called barrier.wait()
    barrier_index,  \* per thread: what barrier.wait() returns to it (None before)
    running_event,  \* running_event of main
    coord_event,    \* StartCoordinator._event
    coord_start_time, \* StartCoordinator._start_time
    release_calls,  \* calls of StartCoordinator.release() so far
    flag_file,      \* stop.flag: None while absent, else the clock at its creation
    stop_signal_event, \* StopSignal._event
    start_time,     \* per SimLoop thread: local `start_time` (None before)
    next_tick,      \* per SimLoop thread: local `next_tick`
    tick_index,     \* per SimLoop thread: local `tick_index`
    \* the start of run_simulation (SpecStartup)
    args,           \* the argparse.Namespace given to run_simulation
    startup_pc,     \* where the start of run_simulation is
    exit_status,    \* the exit status of the process (None while it runs)
    ramp_sequence,  \* run_simulation's `ramp_sequence` (None before it is parsed)
    sinks_started,  \* whether event_logger.start() and csv_logger.start() have run
    workers_created, \* whether device_workers has been built
    \* the sinks and the periodic reporter of run_simulation (SpecRun)
    ev_writer_pc,   \* where AsyncJsonLogger._writer is
    ev_file,        \* the lines of the JSONL event file
    csv_queue,      \* csv_logger._queue
    csv_logged,     \* history: the snapshots passed to csv_logger.log(), in order
    csv_writer_pc,  \* where AsyncCsvLogger._writer is
    csv_file,       \* the lines of the CSV snapshot file
    reporter_pc,    \* where periodic_reporter is
    reporter_ticks, \* times the reporter's wait_for has timed out
    \* calls of the pure functions (SpecClassify, ...)
    call_args,      \* the arguments of the call (None where no call is modelled)
    call_result,    \* what the call returned (None before it returns)
    \* orchestrate
    orch_args,      \* args of orchestrate (None where it is not modelled)
    orch_pc,        \* position of orchestrate
    children,       \* the child processes the operating system runs
    processes,      \* orchestrate's list of (shard_index, proc)
    exit_codes,     \* orchestrate's list of the codes proc.wait() returned
    \* GlobalMetricsCollector
    snapshots,          \* self._snapshots: shard key -> snapshot
    devices_by_shard,   \* self._devices_by_shard: shard key -> device map
    \* simcore.MetricsCollector.snapshot and simcore.MetricsWriter
    snapshot_pc,        \* where the thread calling MetricsCollector.snapshot() is
    snapshot_locals,    \* the locals of that call (None outside of it)
    snapshot_result,    \* the MetricsSnapshot it returned last (None before)
    writer_pc,          \* where MetricsWriter.run is
    writer_deadline,    \* when the wait of MetricsWriter.run times out
    writer_local,       \* write_snapshot's `snapshot` and `status` (None before)
    stop_local,         \* MetricsWriter.stop's `snapshot` and `status` (None before)
    writer_stop_event,  \* MetricsWriter._stop_event
    tmp_file,           \* metrics.json.tmp: None while absent, else its content
    metrics_file        \* metrics.json: None while absent, else its content

aggVars == <<metrics, now>>
apiVars == <<last_call, summary_pc, snap, summary_result>>
mainVars == <<config, main_pc, stage, launched, stop_cause>>
workerVars == <<pc, connected, disconnect_reason, backoff, sleep_for, pending_exc,
                message_sequence, attempts, fail_streak, open_sessions, ev_queue,
                ev_logged>>
simVars == <<mainVars, workerVars>>
telVars == <<publish_interval, clock, tel_main, loop_pc, barrier_count, barrier_index,
             running_event, coord_event, coord_start_time, release_calls, flag_file,
             stop_signal_event, start_time, next_tick, tick_index>>
startVars == <<args, startup_pc, exit_status, ramp_sequence, sinks_started, workers_created>>
sinkVars == <<ev_writer_pc, ev_file, csv_queue, csv_logged, csv_writer_pc, csv_file,
              reporter_pc, reporter_ticks>>
orchVars == <<orch_args, orch_pc, children, processes, exit_codes>>
collectorVars == <<snapshots, devices_by_shard>>
snapshotVars == <<snapshot_pc, snapshot_locals, snapshot_result>>
writerVars == <<writer_pc, writer_deadline, writer_local, stop_local, writer_stop_event, tmp_file,
                metrics_file>>
coreVars == <<snapshotVars, writerVars>>
auxVars == <<call_args, call_result, orchVars, collectorVars, coreVars>>
extVars == <<startVars, sinkVars, auxVars>>
restVars == <<telVars, extVars>>
vars == <<metrics, now, stop_event, apiVars, simVars, telVars, extVars>>

\* ------------------------------------------------------- MetricsAggregator
\* MetricsAggregator.__init__
MetricsAggregatorInit(total) ==
    [ total_devices |-> total,
      success_count |-> 0,
      failure_count |-> 0,
      latencies |-> <<>>,
      latencies_sorted |-> TRUE,
      latencies_cache |-> <<>>,
      active_devices |-> {},
      seen_devices |-> {},
      failed_devices |-> {},
      messages_per_device |-> EmptyMap,
      failed_messages_per_device |-> EmptyMap,
      bytes_per_device |-> EmptyMap,
      disconnect_causes |-> EmptyMap,
      bytes_sent |-> 0,
      peak_connected |-> 0,
      collapsed_at |-> None,
      collapse_reason |-> None ]

\* A plausible bug: the guard `if self.collapsed_at is None` is dropped.
mark_collapse_unguarded(m, reason, t) ==
    [m EXCEPT !.collapsed_at = Some(t), !.collapse_reason = Some(reason)]

\* MetricsAggregator._mark_collapse
mark_collapse(m, reason, t) ==
    IF m.collapsed_at = None
    THEN [m EXCEPT !.collapsed_at = Some(t), !.collapse_reason = Some(reason)]
    ELSE m

\* A plausible bug: the device is not added to the seen set.
record_client_connected_noseen(m, device_id) ==
    LET active == m.active_devices \cup {device_id}
    IN [m EXCEPT !.active_devices = active,
                 !.peak_connected = Max(m.peak_connected, Cardinality(active))]

\* MetricsAggregator.record_client_connected
record_client_connected(m, device_id) ==
    LET active == m.active_devices \cup {device_id}
    IN [m EXCEPT !.active_devices = active,
                 !.seen_devices = @ \cup {device_id},
                 !.peak_connected = Max(m.peak_connected, Cardinality(active))]

\* MetricsAggregator.record_client_disconnected
record_client_disconnected(m, device_id, reason, graceful, t) ==
    LET m1 == [m EXCEPT !.active_devices = @ \ {device_id}]
    IN IF graceful THEN m1
       ELSE LET m2 == [m1 EXCEPT !.failed_devices = @ \cup {device_id}]
                m3 == IF Truthy(reason)
                      THEN [m2 EXCEPT !.disconnect_causes = Incr(@, reason[1], 1)]
                      ELSE m2
            IN mark_collapse(m3, OrDefault(reason, "disconnect"), t)

\* MetricsAggregator.record_publish_success
record_publish_success(m, device_id, latency_seconds, payload_bytes) ==
    [m EXCEPT !.success_count = @ + 1,
              !.latencies = Append(@, latency_seconds),
              !.latencies_sorted = FALSE,
              !.bytes_sent = @ + payload_bytes,
              !.messages_per_device = Incr(@, device_id, 1),
              !.bytes_per_device = Incr(@, device_id, payload_bytes)]

\* MetricsAggregator.record_publish_failure
record_publish_failure(m, device_id, reason, t) ==
    LET m1 == [m EXCEPT !.failure_count = @ + 1,
                        !.failed_devices = @ \cup {device_id},
                        !.failed_messages_per_device = Incr(@, device_id, 1)]
        m2 == IF Truthy(reason)
              THEN [m1 EXCEPT !.disconnect_causes = Incr(@, reason[1], 1)]
              ELSE m1
    IN mark_collapse(m2, OrDefault(reason, "publish failure"), t)

\* MetricsAggregator.record_connection_failure
record_connection_failure(m, device_id, reason, t) ==
    LET m1 == [m EXCEPT !.failure_count = @ + 1,
                        !.failed_devices = @ \cup {device_id}]
        m2 == IF Truthy(reason)
              THEN [m1 EXCEPT !.disconnect_causes = Incr(@, reason[1], 1)]
              ELSE m1
    IN mark_collapse(m2, OrDefault(reason, "connection failure"), t)

\* sorted(): insertion of x into an ascending sequence.
RECURSIVE InsertSorted(_, _)
InsertSorted(x, s) ==
    IF s = <<>> THEN <<x>>
    ELSE IF x <= Head(s) THEN <<x>> \o s
    ELSE <<Head(s)>> \o InsertSorted(x, Tail(s))

\* A plausible bug: the cache is filled with the samples as recorded.
sorted_as_recorded(s) == s

\* sorted(self._latencies)
RECURSIVE sorted(_)
sorted(s) == IF s = <<>> THEN <<>> ELSE InsertSorted(Head(s), sorted(Tail(s)))

\* MetricsAggregator._ensure_sorted_latencies: the aggregator after the call
\* (the cache is rebuilt lazily) ...
ensure_sorted_latencies(m) ==
    IF m.latencies = <<>> THEN m
    ELSE IF ~m.latencies_sorted
    THEN [m EXCEPT !.latencies_cache = sorted(m.latencies), !.latencies_sorted = TRUE]
    ELSE m

\* ... and the sequence it returns.
sorted_latencies(m) ==
    IF m.latencies = <<>> THEN <<>> ELSE ensure_sorted_latencies(m).latencies_cache

\* Fractions are pairs <<numerator, denominator>> with a positive denominator:
\* the quotients the code computes in floating point are kept exact, and its
\* round(x, 4) of the values in milliseconds is left out.
RatEq(a, b) == a[1] * b[2] = b[1] * a[2]
RatLeq(a, b) == a[1] * b[2] <= b[1] * a[2]
RatAdd(a, b) == <<a[1] * b[2] + b[1] * a[2], a[2] * b[2]>>
RatScale(a, k) == <<a[1] * k, a[2]>>

RECURSIVE GCD(_, _)
GCD(a, b) == IF b = 0 THEN a ELSE GCD(b, a % b)

\* The fraction in lowest terms.
RatNorm(a) ==
    IF a[1] = 0 THEN <<0, 1>>
    ELSE LET g == GCD(a[1], a[2]) IN <<a[1] \div g, a[2] \div g>>

\* a + b over the least common denominator, in lowest terms.
RatSum(a, b) ==
    LET l == (a[2] \div GCD(a[2], b[2])) * b[2]
    IN RatNorm(<<a[1] * (l \div a[2]) + b[1] * (l \div b[2]), l>>)

\* a / b for b > 0
RatDiv(a, b) == RatNorm(<<a[1] * b[2], a[2] * b[1]>>)

RECURSIVE SumSeq(_)
SumSeq(xs) == IF xs = <<>> THEN 0 ELSE Head(xs) + SumSeq(Tail(xs))

\* fmean(self._latencies)
fmean(xs) == <<SumSeq(xs), Len(xs)>>

\* A plausible bug: the percentile is the sample at the floor of the rank.
percentile_floor(percent, data) ==
    IF data = <<>> THEN None
    ELSE Some(<<data[((Len(data) - 1) * percent) \div 100 + 1], 1>>)

\* MetricsAggregator._percentile: rank = (len(data) - 1) * percent / 100 and
\* data[i] of the code is data[i + 1] here.
percentile(percent, data) ==
    IF data = <<>> THEN None
    ELSE IF Len(data) = 1 THEN Some(<<data[1], 1>>)
    ELSE LET rank100 == (Len(data) - 1) * percent
             lower_index == rank100 \div 100
             upper_index == IF rank100 % 100 = 0 THEN lower_index ELSE lower_index + 1
         IN IF lower_index = upper_index THEN Some(<<data[lower_index + 1], 1>>)
            ELSE LET lower == data[lower_index + 1]
                     upper == data[upper_index + 1]
                 IN Some(<<lower * 100 + (upper - lower) * (rank100 - 100 * lower_index),
                           100>>)

\* elapsed = max((now - self.started_at).total_seconds(), 1e-9), started_at
\* being time 0: a fraction of a tick.  The floor 1e-9 is kept as 1/1000 of a
\* tick (any positive value below one tick reads the same here).
elapsed(t) == IF t > 0 THEN <<t, 1>> ELSE <<1, 1000>>

\* MetricsAggregator.snapshot: the dictionary built under the lock at time t.
\* uptime_seconds, messages_per_second and bandwidth_mbps are kept exact: their
\* round() is not modelled.
\* data_volume_mb is bytes_sent / (1024 * 1024): kept as the pair
\* <<numerator, denominator>> of that quotient.
snapshot(m, t) ==
    [ timestamp |-> t,
      uptime_seconds |-> elapsed(t),
      elapsed_seconds |-> elapsed(t),
      messages_per_second |-> RatDiv(<<m.success_count, 1>>, elapsed(t)),
      bandwidth_mbps |-> RatDiv(<<m.bytes_sent * 8, 1000000>>, elapsed(t)),
      total_devices |-> Max(Max(m.total_devices, Cardinality(m.seen_devices)), 1),
      active_clients |-> Cardinality(m.active_devices),
      successful_publishes |-> m.success_count,
      failed_publishes |-> m.failure_count,
      latencies_sorted |-> sorted_latencies(m),
      avg_latency_ms |-> IF m.latencies = <<>> THEN None ELSE Some(fmean(m.latencies)),
      p50_latency_ms |-> percentile(50, sorted_latencies(m)),
      p95_latency_ms |-> percentile(95, sorted_latencies(m)),
      p99_latency_ms |-> percentile(99, sorted_latencies(m)),
      connected_devices |-> Cardinality(m.active_devices),
      failed_devices |-> Cardinality(m.failed_devices),
      messages_sent |-> m.success_count,
      messages_failed |-> m.failure_count,
      data_volume_mb |-> <<m.bytes_sent, 1024 * 1024>>,
      channels_in_use |-> Cardinality(m.active_devices),
      collapse_time_seconds |-> m.collapsed_at,
      collapse_reason |-> m.collapse_reason,
      disconnect_causes |-> m.disconnect_causes ]

\* MetricsAggregator.summary, second critical section: the fields it adds to
\* or overwrites in `snap` from the aggregator as it is now.
summary_overrides(s, m) ==
    [ timestamp |-> s.timestamp,
      total_devices |-> Max(m.total_devices, Cardinality(m.seen_devices)),
      active_clients |-> s.active_clients,
      successful_publishes |-> s.successful_publishes,
      failed_publishes |-> s.failed_publishes,
      latencies_sorted |-> s.latencies_sorted,
      connected_devices |-> s.connected_devices,
      failed_devices |-> s.failed_devices,
      messages_sent |-> s.messages_sent,
      messages_failed |-> s.messages_failed,
      data_volume_mb |-> s.data_volume_mb,
      channels_in_use |-> s.channels_in_use,
      collapse_time_seconds |-> s.collapse_time_seconds,
      collapse_reason |-> s.collapse_reason,
      disconnect_causes |-> m.disconnect_causes,
      peak_connected_devices |-> m.peak_connected,
      bytes_sent |-> m.bytes_sent ]

\* The orders in which a set of device ids may be iterated: the order depends
\* on the hashes of the process, and is the same for equal sets built the same
\* way in one process.
DeviceOrders ==
    {o \in [1 .. Cardinality(Devices) -> Devices] :
        \A i, j \in DOMAIN o : o[i] = o[j] => i = j}

\* list.sort(key=messages, reverse=True) is stable: an entry goes after the
\* entries with as many messages or more.
RECURSIVE insert_by_messages(_, _)
insert_by_messages(x, s) ==
    IF s = <<>> THEN <<x>>
    ELSE IF Head(s).messages >= x.messages
         THEN <<Head(s)>> \o insert_by_messages(x, Tail(s))
         ELSE <<x>> \o s

\* A plausible bug: the entries are left in the order of iteration.
unsorted_by_messages(devices) == devices

\* devices.sort(key=lambda item: item["messages"], reverse=True)
RECURSIVE sort_by_messages(_)
sort_by_messages(devices) ==
    IF devices = <<>> THEN <<>>
    ELSE insert_by_messages(devices[Len(devices)],
                            sort_by_messages(SubSeq(devices, 1, Len(devices) - 1)))

\* devices[:limit]
slice_to(devices, limit) ==
    IF limit >= 0 THEN SubSeq(devices, 1, Min(limit, Len(devices)))
    ELSE SubSeq(devices, 1, Max(0, Len(devices) + limit))

\* MetricsAggregator.device_breakdown(limit), the set being iterated in `order`.
device_breakdown(m, limit, order) ==
    LET all_devices == (DOMAIN m.messages_per_device)
                           \cup (DOMAIN m.failed_messages_per_device)
                           \cup m.failed_devices
        iterated == SelectSeq(order, LAMBDA d : d \in all_devices)
        devices == [i \in 1 .. Len(iterated) |->
                       [device |-> iterated[i],
                        messages |-> GetOr0(m.messages_per_device, iterated[i]),
                        failed_messages |-> GetOr0(m.failed_messages_per_device, iterated[i]),
                        bytes |-> GetOr0(m.bytes_per_device, iterated[i])]]
        ordered == sort_by_messages(devices)
    IN IF limit = None THEN ordered ELSE slice_to(ordered, limit[1])

\* ------------------------------------------- Spec: the aggregator's methods
\* Arguments the callers pass.
ReasonInputs == {None, Some(""), Some("network")}
Latencies == {1, 3}
PayloadSizes == {2}
TotalDevicesInputs == {0, Cardinality(Devices)}

\* What the caller passed that decides the collapse fields.
NoCall == [op |-> "none", reason |-> None, graceful |-> TRUE]

Call(op, d, reason, graceful) ==
    [op |-> op, reason |-> reason, graceful |-> graceful]

\* The number of calls a behaviour may make: summary_pc is "off" in Spec,
\* where no dashboard thread runs.
OpsBudget ==
    IF summary_pc /= "off" THEN MaxOpsSummary
    ELSE IF call_args /= None THEN call_args[1].ops
    ELSE MaxOps

\* No run_simulation in Spec and SpecSummary: its variables stay as they are.
SimIdle ==
    /\ config = None
    /\ main_pc = "off"
    /\ stage = 0
    /\ launched = 0
    /\ stop_cause = "none"
    /\ pc = [w \in Devices |-> "idle"]
    /\ connected = [w \in Devices |-> FALSE]
    /\ disconnect_reason = [w \in Devices |-> "unknown"]
    /\ backoff = [w \in Devices |-> 0]
    /\ sleep_for = [w \in Devices |-> 0]
    /\ pending_exc = [w \in Devices |-> "none"]
    /\ message_sequence = [w \in Devices |-> 0]
    /\ attempts = 0
    /\ fail_streak = [w \in Devices |-> 0]
    /\ open_sessions = [w \in Devices |-> 0]
    /\ ev_queue = <<>>
    /\ ev_logged = <<>>

\* The sinks and the periodic reporter are not modelled.
SinksIdle ==
    /\ ev_writer_pc = "off"
    /\ ev_file = <<>>
    /\ csv_queue = <<>>
    /\ csv_logged = <<>>
    /\ csv_writer_pc = "off"
    /\ csv_file = <<>>
    /\ reporter_pc = "off"
    /\ reporter_ticks = 0

\* orchestrate is not modelled.
OrchIdle ==
    /\ orch_args = None
    /\ orch_pc = "off"
    /\ children = <<>>
    /\ processes = <<>>
    /\ exit_codes = <<>>

\* No GlobalMetricsCollector is modelled.
CollectorIdle ==
    /\ snapshots = <<>>
    /\ devices_by_shard = <<>>

\* No MetricsWriter is modelled.
WriterIdle ==
    /\ writer_pc = "off"
    /\ writer_deadline = 0
    /\ writer_local = None
    /\ stop_local = None
    /\ writer_stop_event = FALSE
    /\ tmp_file = None
    /\ metrics_file = None

\* No snapshot() of the MetricsCollector of simcore and no MetricsWriter are
\* modelled.
CoreIdle ==
    /\ snapshot_pc = "off"
    /\ snapshot_locals = None
    /\ snapshot_result = None
    /\ WriterIdle

\* No call of a pure function is modelled.
AuxIdle ==
    /\ call_args = None
    /\ call_result = None
    /\ OrchIdle
    /\ CollectorIdle
    /\ CoreIdle

\* The start of run_simulation is not modelled.
StartIdle ==
    /\ args = None
    /\ startup_pc = "off"
    /\ exit_status = None
    /\ ramp_sequence = None
    /\ sinks_started = FALSE
    /\ workers_created = FALSE

\* The threads a run_telemetry process has besides main: one SimLoop per device.
Threads == Devices \cup {"main"}

\* run_telemetry is not running.
TelIdle ==
    /\ publish_interval = 1
    /\ clock = 0
    /\ tel_main = "off"
    /\ loop_pc = [w \in Devices |-> "off"]
    /\ barrier_count = 0
    /\ barrier_index = [p \in Threads |-> None]
    /\ running_event = FALSE
    /\ coord_event = FALSE
    /\ coord_start_time = 0
    /\ release_calls = 0
    /\ flag_file = None
    /\ stop_signal_event = FALSE
    /\ start_time = [w \in Devices |-> None]
    /\ next_tick = [w \in Devices |-> 0]
    /\ tick_index = [w \in Devices |-> 0]

Init ==
    /\ metrics \in {MetricsAggregatorInit(n) : n \in TotalDevicesInputs}
    /\ now = 0
    /\ stop_event = FALSE
    /\ last_call = NoCall
    /\ summary_pc = "off"
    /\ snap = None
    /\ summary_result = None
    /\ SimIdle
    /\ TelIdle
    /\ StartIdle
    /\ AuxIdle
    /\ SinksIdle

\* Every record_* call takes the lock for its whole body: one atomic step.
\* Time passes between calls.
CallConnected(d) ==
    /\ now < OpsBudget
    /\ metrics' = record_client_connected(metrics, d)
    /\ now' = now + 1
    /\ last_call' = Call("connected", d, None, TRUE)
    /\ UNCHANGED <<stop_event, summary_pc, snap, summary_result, simVars, restVars>>

CallDisconnected(d, reason, graceful) ==
    /\ now < OpsBudget
    /\ metrics' = record_client_disconnected(metrics, d, reason, graceful, now + 1)
    /\ now' = now + 1
    /\ last_call' = Call("disconnected", d, reason, graceful)
    /\ UNCHANGED <<stop_event, summary_pc, snap, summary_result, simVars, restVars>>

CallPublishSuccess(d, latency, size) ==
    /\ now < OpsBudget
    /\ metrics' = record_publish_success(metrics, d, latency, size)
    /\ now' = now + 1
    /\ last_call' = Call("publish_success", d, None, TRUE)
    /\ UNCHANGED <<stop_event, summary_pc, snap, summary_result, simVars, restVars>>

CallPublishFailure(d, reason) ==
    /\ now < OpsBudget
    /\ metrics' = record_publish_failure(metrics, d, reason, now + 1)
    /\ now' = now + 1
    /\ last_call' = Call("publish_failure", d, reason, FALSE)
    /\ UNCHANGED <<stop_event, summary_pc, snap, summary_result, simVars, restVars>>

CallConnectionFailure(d, reason) ==
    /\ now < OpsBudget
    /\ metrics' = record_connection_failure(metrics, d, reason, now + 1)
    /\ now' = now + 1
    /\ last_call' = Call("connection_failure", d, reason, FALSE)
    /\ UNCHANGED <<stop_event, summary_pc, snap, summary_result, simVars, restVars>>

\* Cancellation is requested (signal, duration timer).
RequestStop ==
    /\ ~stop_event
    /\ stop_event' = TRUE
    /\ UNCHANGED <<metrics, now, last_call, summary_pc, snap, summary_result, simVars, restVars>>

\* GET /api/metrics on the dashboard thread: summary() first calls snapshot(),
\* which takes and releases the lock ...
SummarySnapshot ==
    /\ summary_pc = "idle"
    /\ snap' = Some(snapshot(metrics, now))
    /\ metrics' = ensure_sorted_latencies(metrics)
    /\ summary_pc' = "overrides"
    /\ UNCHANGED <<now, stop_event, last_call, summary_result, simVars, restVars>>

\* ... and then takes the lock again to overwrite four fields.
SummaryOverrides ==
    /\ summary_pc = "overrides"
    /\ summary_result' = Some(summary_overrides(snap[1], metrics))
    /\ snap' = None
    /\ summary_pc' = "idle"
    /\ UNCHANGED <<metrics, now, stop_event, last_call, simVars, restVars>>

Next ==
    \/ \E d \in Devices : CallConnected(d)
    \/ \E d \in Devices, r \in ReasonInputs, g \in BOOLEAN : CallDisconnected(d, r, g)
    \/ \E d \in Devices, l \in Latencies, b \in PayloadSizes : CallPublishSuccess(d, l, b)
    \/ \E d \in Devices, r \in ReasonInputs : CallPublishFailure(d, r)
    \/ \E d \in Devices, r \in ReasonInputs : CallConnectionFailure(d, r)
    \/ RequestStop

Spec == Init /\ [][Next]_vars

\* The same calls in a process whose sets of device ids iterate in the order
\* call_args[1].order; device_breakdown is read in every state.  The driver
\* makes call_args[1].ops calls.
InitBreakdown ==
    /\ metrics \in {MetricsAggregatorInit(n) : n \in TotalDevicesInputs}
    /\ now = 0
    /\ stop_event = FALSE
    /\ last_call = NoCall
    /\ summary_pc = "off"
    /\ snap = None
    /\ summary_result = None
    /\ SimIdle
    /\ TelIdle
    /\ StartIdle
    /\ SinksIdle
    /\ call_args \in {Some([order |-> o, ops |-> MaxOpsBreakdown]) : o \in DeviceOrders}
    /\ call_result = None
    /\ OrchIdle
    /\ CollectorIdle
    /\ CoreIdle

NextBreakdown ==
    \/ \E d \in Devices : CallConnected(d)
    \/ \E d \in Devices, r \in ReasonInputs, g \in BOOLEAN : CallDisconnected(d, r, g)
    \/ \E d \in Devices, l \in Latencies, b \in PayloadSizes : CallPublishSuccess(d, l, b)
    \/ \E d \in Devices, r \in ReasonInputs : CallPublishFailure(d, r)
    \/ \E d \in Devices, r \in ReasonInputs : CallConnectionFailure(d, r)

SpecBreakdown == InitBreakdown /\ [][NextBreakdown]_vars

\* The aggregator's methods called on the event-loop thread while the
\* dashboard thread (MetricsServer.start) serves GET /api/metrics.
InitSummary ==
    /\ metrics \in {MetricsAggregatorInit(n) : n \in TotalDevicesInputs}
    /\ now = 0
    /\ stop_event = FALSE
    /\ last_call = NoCall
    /\ summary_pc = "idle"
    /\ snap = None
    /\ summary_result = None
    /\ SimIdle
    /\ TelIdle
    /\ StartIdle
    /\ AuxIdle
    /\ SinksIdle

NextSummary ==
    \/ Next
    \/ SummarySnapshot
    \/ SummaryOverrides

SpecSummary == InitSummary /\ [][NextSummary]_vars

\* ------------------------------------- DeviceWorker and run_simulation
\* Connection attempts and publishes the workers make in a behaviour.
MaxAttempts == 2
MaxPublishes == 2

\* selected_devices, in the order run_simulation builds device_workers.
DeviceList == <<"d1", "d2">>

\* Durations are in tenths of a second: the floor 0.1 of backoff_base.
MinBackoff == 1

\* The arguments of a run: --backoff-base and --backoff-max in tenths of a
\* second, ramp_sequence, and whether --ramp-wait is positive.
Configs ==
    { [backoff_base |-> 0, backoff_max |-> 0, ramp_sequence |-> <<2>>, ramp_wait |-> 0],
      [backoff_base |-> 2, backoff_max |-> 3, ramp_sequence |-> <<1, 2>>, ramp_wait |-> 0],
      [backoff_base |-> 2, backoff_max |-> 3, ramp_sequence |-> <<1, 2>>, ramp_wait |-> 1] }

\* DeviceWorker.__init__: self.backoff_base, self.backoff_max
worker_backoff_base == Max(config[1].backoff_base, MinBackoff)
worker_backoff_max == Max(config[1].backoff_max, worker_backoff_base)

\* What the worker measures and sends for one publish.
PublishLatencies == {1}

\* A plausible bug: a worker ended by cancellation counts as a failure.
GracefulReasonsWithoutStopped == {"graceful", "loop_exit", "cancelled"}

\* The reasons DeviceWorker.run treats as graceful in its finally block ...
GracefulReasons == {"graceful", "loop_exit", "stopped", "cancelled"}

\* A plausible bug: a publish error ends the worker like a normal exit.
ExitReasonsWithError == {"graceful", "loop_exit", "stopped", "mqtt_publish_error"}

\* ... and those after which it leaves its outer loop.
ExitReasons == {"graceful", "loop_exit", "stopped"}

\* A plausible bug: the doubling is not capped.
next_backoff_uncapped(b, bmax) == b * 2

\* backoff = min(backoff * 2, self.backoff_max)
next_backoff(b, bmax) == Min(b * 2, bmax)

\* A plausible bug: a cancelled task skips the disconnect record.
finally_block_skip_cancelled(s, w, conn, reason, t) ==
    IF conn /\ reason /= "cancelled"
    THEN [ metrics |-> record_client_disconnected(
                           s.metrics, w, Some(reason), reason \in GracefulReasons, t),
           open_sessions |-> s.open_sessions - 1 ]
    ELSE s

\* The finally block of DeviceWorker.run, on the aggregator and the worker's
\* count of sessions recorded as connected and not yet as disconnected.
finally_block(s, w, conn, reason, t) ==
    IF conn
    THEN [ metrics |-> record_client_disconnected(
                           s.metrics, w, Some(reason), reason \in GracefulReasons, t),
           open_sessions |-> s.open_sessions - 1 ]
    ELSE s

\* After the finally block: leave the outer loop or sleep and retry.
after_finally(reason, stop) ==
    IF stop THEN "done"
    ELSE IF reason \in ExitReasons THEN "done"
    ELSE "backoff"

\* asyncio runs one coroutine at a time: tasks and callbacks run only while
\* run_simulation is suspended at an await.
MainAwaiting ==
    main_pc \in {"dwell", "wait", "gather", "await_reporter", "close_events", "close_csv"}

RECURSIVE SumOver(_, _)
SumOver(f, S) ==
    IF S = {} THEN 0
    ELSE LET x == CHOOSE y \in S : TRUE IN f[x] + SumOver(f, S \ {x})

\* Publishes the workers have started so far.
TotalPublishes == SumOver(message_sequence, Devices)

\* Timeouts of the reporter's wait_for in one behaviour.
MaxReports == 1

\* Publishes the workers start in one behaviour of SpecRun.
MaxPublishesRun == 1

\* The publishes a behaviour may start: reporter_pc is "off" in SpecWorker.
PublishBudget == IF reporter_pc = "off" THEN MaxPublishes ELSE MaxPublishesRun

InitWorker ==
    /\ config \in {Some(c) : c \in Configs}
    /\ metrics = MetricsAggregatorInit(Len(DeviceList))
    /\ now = 0
    /\ stop_event = FALSE
    /\ last_call = NoCall
    /\ summary_pc = "off"
    /\ snap = None
    /\ summary_result = None
    /\ main_pc = "ramp"
    /\ stage = 1
    /\ launched = 0
    /\ stop_cause = "none"
    /\ pc = [w \in Devices |-> "idle"]
    /\ connected = [w \in Devices |-> FALSE]
    /\ disconnect_reason = [w \in Devices |-> "unknown"]
    /\ backoff = [w \in Devices |-> 0]
    /\ sleep_for = [w \in Devices |-> 0]
    /\ pending_exc = [w \in Devices |-> "none"]
    /\ message_sequence = [w \in Devices |-> 0]
    /\ attempts = 0
    /\ fail_streak = [w \in Devices |-> 0]
    /\ open_sessions = [w \in Devices |-> 0]
    /\ ev_queue = <<>>
    /\ ev_logged = <<>>
    /\ TelIdle
    /\ StartIdle
    /\ AuxIdle
    /\ SinksIdle

\* A record of the event log: `detail` is the status of a publish event and
\* the reason of a disconnected event.
Event(w, event, detail) == [device |-> w, event |-> event, detail |-> detail]

\* `await self.event_logger.log(record)` for each record of recs, in order:
\* put() on the unbounded queue returns without suspending. Where the sinks
\* are not modelled nothing is kept.
LogEvents(recs) ==
    IF ev_writer_pc = "off"
    THEN UNCHANGED <<ev_queue, ev_logged>>
    ELSE /\ ev_queue' = ev_queue \o [i \in 1..Len(recs) |-> Some(recs[i])]
         /\ ev_logged' = ev_logged \o recs

\* The handlers and the finally block that end one connection attempt, then
\* the checks after it. m is the aggregator after the except clause.
\* errs are the records the except clause has logged.
EndAttempt(w, m, reason, reraise, errs) ==
    LET s == finally_block([metrics |-> m, open_sessions |-> open_sessions[w]],
                           w, connected[w], reason, now)
        nxt == IF reraise THEN "cancelled" ELSE after_finally(reason, stop_event)
    IN /\ metrics' = s.metrics
       /\ LogEvents(errs \o IF connected[w]
                             THEN <<Event(w, "disconnected", reason)>>
                             ELSE <<>>)
       /\ open_sessions' = [open_sessions EXCEPT ![w] = s.open_sessions]
       /\ disconnect_reason' = [disconnect_reason EXCEPT ![w] = reason]
       /\ pending_exc' = [pending_exc EXCEPT ![w] = "none"]
       /\ pc' = [pc EXCEPT ![w] = nxt]
       /\ sleep_for' = IF nxt = "backoff"
                       THEN [sleep_for EXCEPT ![w] = Min(backoff[w], worker_backoff_max)]
                       ELSE sleep_for

\* A plausible bug: the outer loop is `while True:` and the event is tested
\* only after an attempt.
LoopTopUntested(w) ==
    /\ MainAwaiting
    /\ pc[w] = "loop_top"
    /\ attempts < MaxAttempts
    /\ attempts' = attempts + 1
    /\ connected' = [connected EXCEPT ![w] = FALSE]
    /\ disconnect_reason' = [disconnect_reason EXCEPT ![w] = "unknown"]
    /\ pc' = [pc EXCEPT ![w] = "connecting"]
    /\ UNCHANGED <<restVars, metrics, now, stop_event, apiVars, mainVars, backoff, sleep_for,
                   pending_exc, message_sequence, fail_streak, open_sessions, ev_queue,
                   ev_logged>>

\* `while not self.stop_event.is_set():` of run, then Client(...).__aenter__.
LoopTop(w) ==
    /\ MainAwaiting
    /\ pc[w] = "loop_top"
    /\ IF stop_event
       THEN /\ pc' = [pc EXCEPT ![w] = "done"]
            /\ UNCHANGED <<connected, disconnect_reason, attempts>>
       ELSE /\ attempts < MaxAttempts
            /\ attempts' = attempts + 1
            /\ connected' = [connected EXCEPT ![w] = FALSE]
            /\ disconnect_reason' = [disconnect_reason EXCEPT ![w] = "unknown"]
            /\ pc' = [pc EXCEPT ![w] = "connecting"]
    /\ UNCHANGED <<restVars, metrics, now, stop_event, apiVars, mainVars, backoff, sleep_for,
                   pending_exc, message_sequence, fail_streak, open_sessions, ev_queue,
                   ev_logged>>

\* The connection is made: lines 464-477, up to the first await of the body
\* (the publish) or, with cancellation already requested, the exit of the body.
ConnectOK(w) ==
    /\ MainAwaiting
    /\ pc[w] = "connecting"
    /\ stop_event \/ TotalPublishes < PublishBudget
    /\ connected' = [connected EXCEPT ![w] = TRUE]
    /\ disconnect_reason' = [disconnect_reason EXCEPT ![w] = "graceful"]
    /\ backoff' = [backoff EXCEPT ![w] = worker_backoff_base]
    /\ fail_streak' = [fail_streak EXCEPT ![w] = 0]
    /\ metrics' = record_client_connected(metrics, w)
    /\ open_sessions' = [open_sessions EXCEPT ![w] = @ + 1]
    /\ LogEvents(<<Event(w, "connected", "")>>)
    /\ IF stop_event
       THEN /\ pc' = [pc EXCEPT ![w] = "closing"]
            /\ UNCHANGED message_sequence
       ELSE /\ pc' = [pc EXCEPT ![w] = "publishing"]
            /\ message_sequence' = [message_sequence EXCEPT ![w] = @ + 1]
    /\ UNCHANGED <<restVars, now, stop_event, apiVars, mainVars, sleep_for, pending_exc,
                   attempts>>

\* The connection fails with MqttError or with another exception: the except
\* clauses of lines 494-515, the finally block, the checks of lines 530-534.
ConnectFail(w, reason) ==
    /\ MainAwaiting
    /\ pc[w] = "connecting"
    /\ EndAttempt(w, record_connection_failure(metrics, w, Some(reason), now), reason, FALSE,
                  <<Event(w, "connection_error", "")>>)
    /\ UNCHANGED <<restVars, now, stop_event, apiVars, mainVars, connected, backoff,
                   message_sequence, attempts, fail_streak>>

\* The body of the `async with` is left (normally or by an exception):
\* line 489, then Client.__aexit__ is awaited.
LeaveBody(w, reason, exc) ==
    /\ disconnect_reason' = [disconnect_reason EXCEPT ![w] =
           IF exc = "none" /\ ~stop_event /\ reason = "graceful" THEN "loop_exit" ELSE reason]
    /\ pending_exc' = [pending_exc EXCEPT ![w] = exc]
    /\ pc' = [pc EXCEPT ![w] = "closing"]

\* client.publish returns: _publish records the success, then the worker
\* waits for the interval or for cancellation (line 483).
PublishOK(w, latency, size) ==
    /\ MainAwaiting
    /\ pc[w] = "publishing"
    /\ metrics' = record_publish_success(metrics, w, latency, size)
    /\ LogEvents(<<Event(w, "publish", "success")>>)
    /\ pc' = [pc EXCEPT ![w] = "waiting"]
    /\ UNCHANGED <<restVars, now, stop_event, apiVars, mainVars, connected, disconnect_reason,
                   backoff, sleep_for, pending_exc, message_sequence, attempts,
                   fail_streak, open_sessions>>

\* client.publish raises MqttError: _publish records it and returns False.
PublishMqttError(w) ==
    /\ MainAwaiting
    /\ pc[w] = "publishing"
    /\ metrics' = record_publish_failure(metrics, w, Some("publish:MqttError"), now)
    /\ LogEvents(<<Event(w, "publish", "failure")>>)
    /\ LeaveBody(w, "mqtt_publish_error", "none")
    /\ UNCHANGED <<restVars, now, stop_event, apiVars, mainVars, connected, backoff, sleep_for,
                   message_sequence, attempts, fail_streak, open_sessions>>

\* client.publish raises something else: it leaves _publish and the body.
PublishOtherError(w) ==
    /\ MainAwaiting
    /\ pc[w] = "publishing"
    /\ LeaveBody(w, disconnect_reason[w], "error")
    /\ UNCHANGED <<restVars, metrics, now, stop_event, apiVars, mainVars, connected, backoff,
                   sleep_for, message_sequence, attempts, fail_streak, open_sessions,
                   ev_queue, ev_logged>>

\* wait_for times out: `continue`, the inner loop's condition, next publish.
WaitTimeout(w) ==
    /\ MainAwaiting
    /\ pc[w] = "waiting"
    /\ IF stop_event
       THEN /\ LeaveBody(w, disconnect_reason[w], "none")
            /\ UNCHANGED message_sequence
       ELSE /\ TotalPublishes < PublishBudget
            /\ message_sequence' = [message_sequence EXCEPT ![w] = @ + 1]
            /\ pc' = [pc EXCEPT ![w] = "publishing"]
            /\ UNCHANGED <<disconnect_reason, pending_exc>>
    /\ UNCHANGED <<restVars, metrics, now, stop_event, apiVars, mainVars, connected, backoff,
                   sleep_for, attempts, fail_streak, open_sessions, ev_queue, ev_logged>>

\* stop_event.wait() returns inside wait_for: lines 486-488.
WaitStopped(w) ==
    /\ MainAwaiting
    /\ pc[w] = "waiting"
    /\ stop_event
    /\ LeaveBody(w, "stopped", "none")
    /\ UNCHANGED <<restVars, metrics, now, stop_event, apiVars, mainVars, connected, backoff,
                   sleep_for, message_sequence, attempts, fail_streak, open_sessions,
                   ev_queue, ev_logged>>

\* Client.__aexit__ returns: the except clause that matches the pending
\* exception, the finally block, the checks of lines 530-534.
Close(w) ==
    /\ MainAwaiting
    /\ pc[w] = "closing"
    /\ CASE pending_exc[w] = "none" ->
              EndAttempt(w, metrics, disconnect_reason[w], FALSE, <<>>)
         [] pending_exc[w] = "error" ->
              EndAttempt(w, record_connection_failure(
                                metrics, w, Some("error:Exception"), now),
                         "error:Exception", FALSE, <<Event(w, "unexpected_error", "")>>)
         [] pending_exc[w] = "cancelled" ->
              EndAttempt(w, metrics, "cancelled", TRUE, <<>>)
    /\ UNCHANGED <<restVars, now, stop_event, apiVars, mainVars, connected, backoff,
                   message_sequence, attempts, fail_streak>>

\* asyncio.sleep(min(backoff, backoff_max)) returns: line 535.
BackoffDone(w) ==
    /\ MainAwaiting
    /\ pc[w] = "backoff"
    /\ backoff' = [backoff EXCEPT ![w] = next_backoff(@, worker_backoff_max)]
    /\ fail_streak' = [fail_streak EXCEPT ![w] = @ + 1]
    /\ pc' = [pc EXCEPT ![w] = "loop_top"]
    /\ UNCHANGED <<restVars, metrics, now, stop_event, apiVars, mainVars, connected,
                   disconnect_reason, sleep_for, pending_exc, message_sequence,
                   attempts, open_sessions, ev_queue, ev_logged>>

\* The task is cancelled while suspended (asyncio.run cancels the tasks still
\* pending when it shuts the loop down): CancelledError is raised at the await.
CancelTask(w) ==
    /\ MainAwaiting
    /\ \/ /\ pc[w] \in {"publishing", "waiting", "closing"}
          /\ pending_exc' = [pending_exc EXCEPT ![w] = "cancelled"]
          /\ pc' = [pc EXCEPT ![w] = "closing"]
          /\ UNCHANGED <<metrics, disconnect_reason, open_sessions, sleep_for, ev_queue,
                         ev_logged>>
       \/ /\ pc[w] = "connecting"
          /\ EndAttempt(w, metrics, "cancelled", TRUE, <<>>)
       \/ /\ pc[w] \in {"loop_top", "backoff"}
          /\ pc' = [pc EXCEPT ![w] = "cancelled"]
          /\ UNCHANGED <<metrics, disconnect_reason, open_sessions, sleep_for,
                         pending_exc, ev_queue, ev_logged>>
    /\ UNCHANGED <<restVars, now, stop_event, apiVars, mainVars, connected, backoff,
                   message_sequence, attempts, fail_streak>>

\* Client.__aexit__ itself raises MqttError after a body that ended without an
\* exception: the except clause of lines 494-504, then the finally block.
CloseError(w) ==
    /\ MainAwaiting
    /\ pc[w] = "closing"
    /\ pending_exc[w] = "none"
    /\ EndAttempt(w, record_connection_failure(
                         metrics, w, Some("mqtt_error:MqttError"), now),
                  "mqtt_error:MqttError", FALSE, <<Event(w, "connection_error", "")>>)
    /\ UNCHANGED <<restVars, now, stop_event, apiVars, mainVars, connected, backoff,
                   message_sequence, attempts, fail_streak>>

\* The tasks of the workers run_simulation has created.
Tasks == {DeviceList[i] : i \in 1..launched}

TaskDone(w) == pc[w] \in {"done", "cancelled"}

\* A plausible bug: the stage's target is launched, not what is missing to it.
to_launch_absolute(target, n, done) == Min(target, n)

\* to_launch = min(target, len(device_workers)) - launched
to_launch(target, n, done) == Min(target, n) - done

\* device_workers[a : b], as a set: Python cuts the slice at the list's end.
Slice(a, b) == {DeviceList[i] : i \in (a + 1)..Min(b, Len(DeviceList))}

\* One iteration of `for target in ramp_sequence:` (lines 848-862), up to its
\* await or the start of the next iteration, and the test of line 864.
RampStage ==
    /\ main_pc = "ramp"
    /\ LET seq == config[1].ramp_sequence
           n == Len(DeviceList)
       IN IF stage > Len(seq) \/ stop_event
          THEN /\ main_pc' = "wait"
               /\ UNCHANGED <<stage, launched, pc, backoff>>
          ELSE LET target == seq[stage]
                   count == to_launch(target, n, launched)
                   started == Slice(launched, launched + count)
               IN /\ pc' = [w \in Devices |-> IF w \in started THEN "loop_top" ELSE pc[w]]
                  /\ backoff' = [w \in Devices |->
                                    IF w \in started THEN worker_backoff_base ELSE backoff[w]]
                  /\ launched' = launched + count
                  /\ IF launched + count >= n
                     THEN main_pc' = "wait" /\ UNCHANGED stage
                     ELSE IF config[1].ramp_wait > 0 /\ target /= seq[Len(seq)]
                     THEN main_pc' = "dwell" /\ UNCHANGED stage
                     ELSE main_pc' = "ramp" /\ stage' = stage + 1
    /\ UNCHANGED <<restVars, metrics, now, stop_event, apiVars, config, stop_cause, connected,
                   disconnect_reason, sleep_for, pending_exc, message_sequence,
                   attempts, fail_streak, open_sessions, ev_queue, ev_logged>>

\* wait_for(stop_event.wait(), timeout=ramp_wait) times out: `continue`.
DwellTimeout ==
    /\ main_pc = "dwell"
    /\ main_pc' = "ramp"
    /\ stage' = stage + 1
    /\ UNCHANGED <<restVars, metrics, now, stop_event, apiVars, config, launched, stop_cause,
                   workerVars>>

\* wait_for(stop_event.wait(), ...) returns: `break`.
DwellStopped ==
    /\ main_pc = "dwell"
    /\ stop_event
    /\ main_pc' = "wait"
    /\ UNCHANGED <<restVars, metrics, now, stop_event, apiVars, config, stage, launched,
                   stop_cause, workerVars>>

\* asyncio.wait(tasks + [stop_waiter], FIRST_COMPLETED) returns (or, with no
\* task, stop_event.wait()): lines 864-877 and 880.
MainWaitDone ==
    /\ main_pc = "wait"
    /\ IF Tasks /= {} THEN stop_event \/ \E w \in Tasks : TaskDone(w) ELSE stop_event
    /\ stop_cause' = IF stop_event THEN "stop_event" ELSE "task_finished"
    /\ stop_event' = TRUE
    /\ main_pc' = IF Tasks /= {} THEN "gather" ELSE "shutdown"
    /\ UNCHANGED <<restVars, metrics, now, apiVars, config, stage, launched, workerVars>>

\* asyncio.gather(*tasks, return_exceptions=True) returns: every task ended.
GatherDone ==
    /\ main_pc = "gather"
    /\ \A w \in Tasks : TaskDone(w)
    /\ main_pc' = "shutdown"
    /\ UNCHANGED <<restVars, metrics, now, stop_event, apiVars, config, stage, launched,
                   stop_cause, workerVars>>

\* Lines 881-893: the helper tasks and the loggers are closed.
Shutdown ==
    /\ main_pc = "shutdown"
    /\ main_pc' = IF reporter_pc = "off" THEN "done" ELSE "await_reporter"
    /\ UNCHANGED <<restVars, metrics, now, stop_event, apiVars, config, stage, launched,
                   stop_cause, workerVars>>

\* SIGINT/SIGTERM: the handler installed by configure_signal_handlers.
SignalStop ==
    /\ MainAwaiting
    /\ stop_event' = TRUE
    /\ UNCHANGED <<metrics, now, apiVars, simVars, restVars>>

\* _stop_after_duration: the sleep of args.duration ends.
DurationElapsed ==
    /\ MainAwaiting
    /\ ~stop_event
    /\ stop_event' = TRUE
    /\ UNCHANGED <<metrics, now, apiVars, simVars, restVars>>

NextWorker ==
    \/ RampStage
    \/ DwellTimeout
    \/ DwellStopped
    \/ MainWaitDone
    \/ GatherDone
    \/ Shutdown
    \/ SignalStop
    \/ DurationElapsed
    \/ \E w \in Devices : LoopTop(w)
    \/ \E w \in Devices : ConnectOK(w)
    \/ \E w \in Devices : ConnectFail(w, "mqtt_error:MqttError")
    \/ \E w \in Devices, l \in PublishLatencies, b \in PayloadSizes : PublishOK(w, l, b)
    \/ \E w \in Devices : PublishMqttError(w)
    \/ \E w \in Devices : PublishOtherError(w)
    \/ \E w \in Devices : WaitTimeout(w)
    \/ \E w \in Devices : WaitStopped(w)
    \/ \E w \in Devices : Close(w)
    \/ \E w \in Devices : CloseError(w)
    \/ \E w \in Devices : BackoffDone(w)
    \/ \E w \in Devices : CancelTask(w)

SpecWorker == InitWorker /\ [][NextWorker]_vars

\* --------------------------------- the sinks and the reporter (SpecRun)
\* The arguments of the runs of SpecRun: all devices at once, and two stages
\* with a dwell between them.
RunConfigs ==
    { [backoff_base |-> 0, backoff_max |-> 0, ramp_sequence |-> <<2>>, ramp_wait |-> 0],
      [backoff_base |-> 0, backoff_max |-> 0, ramp_sequence |-> <<1, 2>>, ramp_wait |-> 1] }

\* The header line of the CSV file: the field names.
HeaderLine == [kind |-> "header", fields |-> <<"active_clients", "successful_publishes",
                                               "failed_publishes", "failed_devices">>]

\* csv.DictWriter(..., extrasaction="ignore").writerow(record): the line keeps
\* the fields of the snapshot that are among the field names.
RowLine(record) ==
    [ kind |-> "row",
      active_clients |-> record.active_clients,
      successful_publishes |-> record.successful_publishes,
      failed_publishes |-> record.failed_publishes,
      failed_devices |-> record.failed_devices ]

\* A plausible bug: the file is rewritten with each record.
write_line_truncating(file, line) == <<line>>

\* afp.write(line + "\n"); afp.flush()
write_line(file, line) == Append(file, line)

\* run_simulation at the start of its ramp loop, with the reporter and the CSV
\* sink; the event log is not modelled.
InitRun ==
    /\ config \in {Some(c) : c \in RunConfigs}
    /\ metrics = MetricsAggregatorInit(Len(DeviceList))
    /\ now = 0
    /\ stop_event = FALSE
    /\ last_call = NoCall
    /\ summary_pc = "off"
    /\ snap = None
    /\ summary_result = None
    /\ main_pc = "ramp"
    /\ stage = 1
    /\ launched = 0
    /\ stop_cause = "none"
    /\ pc = [w \in Devices |-> "idle"]
    /\ connected = [w \in Devices |-> FALSE]
    /\ disconnect_reason = [w \in Devices |-> "unknown"]
    /\ backoff = [w \in Devices |-> 0]
    /\ sleep_for = [w \in Devices |-> 0]
    /\ pending_exc = [w \in Devices |-> "none"]
    /\ message_sequence = [w \in Devices |-> 0]
    /\ attempts = 0
    /\ fail_streak = [w \in Devices |-> 0]
    /\ open_sessions = [w \in Devices |-> 0]
    /\ ev_queue = <<>>
    /\ ev_logged = <<>>
    /\ ev_writer_pc = "off"
    /\ ev_file = <<>>
    /\ csv_queue = <<>>
    /\ csv_logged = <<>>
    /\ csv_writer_pc = "created"
    /\ csv_file = <<>>
    /\ reporter_pc = "waiting"
    /\ reporter_ticks = 0
    /\ TelIdle
    /\ StartIdle
    /\ AuxIdle

\* The arguments of the runs of SpecSinks: all devices at once.
SinksConfig ==
    [backoff_base |-> 0, backoff_max |-> 0, ramp_sequence |-> <<2>>, ramp_wait |-> 0]

\* The devices whose connections the broker may refuse in SpecSinks.
RefusedDevices == {DeviceList[1]}

\* The same with the event log too, for the arguments c.
InitSinksWith(c) ==
    /\ config = Some(c)
    /\ metrics = MetricsAggregatorInit(Len(DeviceList))
    /\ now = 0
    /\ stop_event = FALSE
    /\ last_call = NoCall
    /\ summary_pc = "off"
    /\ snap = None
    /\ summary_result = None
    /\ main_pc = "ramp"
    /\ stage = 1
    /\ launched = 0
    /\ stop_cause = "none"
    /\ pc = [w \in Devices |-> "idle"]
    /\ connected = [w \in Devices |-> FALSE]
    /\ disconnect_reason = [w \in Devices |-> "unknown"]
    /\ backoff = [w \in Devices |-> 0]
    /\ sleep_for = [w \in Devices |-> 0]
    /\ pending_exc = [w \in Devices |-> "none"]
    /\ message_sequence = [w \in Devices |-> 0]
    /\ attempts = 0
    /\ fail_streak = [w \in Devices |-> 0]
    /\ open_sessions = [w \in Devices |-> 0]
    /\ ev_queue = <<>>
    /\ ev_logged = <<>>
    /\ ev_writer_pc = "created"
    /\ ev_file = <<>>
    /\ csv_queue = <<>>
    /\ csv_logged = <<>>
    /\ csv_writer_pc = "created"
    /\ csv_file = <<>>
    /\ reporter_pc = "waiting"
    /\ reporter_ticks = 0
    /\ TelIdle
    /\ StartIdle
    /\ AuxIdle

InitSinks == InitSinksWith(SinksConfig)

\* What the actions of the sinks leave alone.
nonSinkVars == <<metrics, now, stop_event, apiVars, mainVars, telVars, startVars, auxVars>>

\* AsyncJsonLogger._writer starts: aiofiles.open(path, "w").
EvWriterOpen ==
    /\ MainAwaiting
    /\ ev_writer_pc = "created"
    /\ ev_writer_pc' = "open"
    /\ ev_file' = <<>>
    /\ UNCHANGED <<nonSinkVars, workerVars, csv_queue, csv_logged, csv_writer_pc, csv_file,
                   reporter_pc, reporter_ticks>>

\* One iteration of the loop of AsyncJsonLogger._writer: queue.get() returns,
\* then the line is written and flushed, or None ends the loop and the file
\* is closed.
EvWrite ==
    /\ MainAwaiting
    /\ ev_writer_pc = "open"
    /\ ev_queue /= <<>>
    /\ ev_queue' = Tail(ev_queue)
    /\ IF Head(ev_queue) = None
       THEN ev_writer_pc' = "done" /\ UNCHANGED ev_file
       ELSE ev_file' = write_line(ev_file, Head(ev_queue)[1]) /\ UNCHANGED ev_writer_pc
    /\ UNCHANGED <<nonSinkVars, pc, connected, disconnect_reason, backoff, sleep_for,
                   pending_exc, message_sequence, attempts, fail_streak, open_sessions,
                   ev_logged, csv_queue, csv_logged, csv_writer_pc, csv_file, reporter_pc,
                   reporter_ticks>>

\* AsyncCsvLogger._writer starts: aiofiles.open(path, "w").
CsvWriterOpen ==
    /\ MainAwaiting
    /\ csv_writer_pc = "created"
    /\ csv_writer_pc' = "header"
    /\ csv_file' = <<>>
    /\ UNCHANGED <<nonSinkVars, workerVars, ev_writer_pc, ev_file, csv_queue, csv_logged,
                   reporter_pc, reporter_ticks>>

\* header_writer.writeheader(); afp.write(...); afp.flush()
CsvWriteHeader ==
    /\ MainAwaiting
    /\ csv_writer_pc = "header"
    /\ csv_writer_pc' = "open"
    /\ csv_file' = write_line(csv_file, HeaderLine)
    /\ UNCHANGED <<nonSinkVars, workerVars, ev_writer_pc, ev_file, csv_queue, csv_logged,
                   reporter_pc, reporter_ticks>>

\* One iteration of the loop of AsyncCsvLogger._writer.
CsvWrite ==
    /\ MainAwaiting
    /\ csv_writer_pc = "open"
    /\ csv_queue /= <<>>
    /\ csv_queue' = Tail(csv_queue)
    /\ IF Head(csv_queue) = None
       THEN csv_writer_pc' = "done" /\ UNCHANGED csv_file
       ELSE csv_file' = write_line(csv_file, RowLine(Head(csv_queue)[1]))
            /\ UNCHANGED csv_writer_pc
    /\ UNCHANGED <<nonSinkVars, workerVars, ev_writer_pc, ev_file, csv_logged, reporter_pc,
                   reporter_ticks>>

\* A plausible bug: the record is not queued.
queue_put_dropping(queue, record) == queue

\* `await self._queue.put(record)` of AsyncCsvLogger.log
queue_put(queue, record) == Append(queue, Some(record))

\* `await csv_logger.log(snapshot)` of periodic_reporter.
LogSnapshot ==
    LET record == snapshot(metrics, now)
    IN /\ metrics' = ensure_sorted_latencies(metrics)
       /\ csv_queue' = queue_put(csv_queue, record)
       /\ csv_logged' = Append(csv_logged, record)

\* periodic_reporter: wait_for(stop_event.wait(), report_interval) times
\* out; the except clause logs a snapshot and the loop waits again.
ReporterTick ==
    /\ MainAwaiting
    /\ reporter_pc = "waiting"
    /\ reporter_ticks < MaxReports
    /\ reporter_ticks' = reporter_ticks + 1
    /\ LogSnapshot
    /\ UNCHANGED <<now, stop_event, apiVars, mainVars, telVars, startVars, auxVars,
                   workerVars, ev_writer_pc, ev_file, csv_writer_pc, csv_file, reporter_pc>>

\* periodic_reporter: stop_event.wait() returns, `break`, the final snapshot
\* is logged and the coroutine returns.
ReporterFinal ==
    /\ MainAwaiting
    /\ reporter_pc = "waiting"
    /\ stop_event
    /\ reporter_pc' = "done"
    /\ LogSnapshot
    /\ UNCHANGED <<now, stop_event, apiVars, mainVars, telVars, startVars, auxVars,
                   workerVars, ev_writer_pc, ev_file, csv_writer_pc, csv_file,
                   reporter_ticks>>

\* `await reporter_task` returns (line 884), then event_logger.close() puts
\* None on the queue and awaits the writer (line 885). Where the event log is
\* not modelled nothing is put.
ReporterJoined ==
    /\ main_pc = "await_reporter"
    /\ reporter_pc = "done"
    /\ main_pc' = "close_events"
    /\ ev_queue' = IF ev_writer_pc = "off" THEN ev_queue ELSE Append(ev_queue, None)
    /\ UNCHANGED <<metrics, now, stop_event, apiVars, config, stage, launched, stop_cause,
                   telVars, startVars, auxVars, sinkVars, pc, connected, disconnect_reason, backoff,
                   sleep_for, pending_exc, message_sequence, attempts, fail_streak,
                   open_sessions, ev_logged>>

\* event_logger.close() returns: its writer has ended. Then csv_logger.close()
\* puts None on the queue and awaits the writer (line 886).
EventsClosed ==
    /\ main_pc = "close_events"
    /\ ev_writer_pc \in {"done", "off"}
    /\ main_pc' = "close_csv"
    /\ csv_queue' = Append(csv_queue, None)
    /\ UNCHANGED <<metrics, now, stop_event, apiVars, config, stage, launched, stop_cause,
                   telVars, startVars, auxVars, workerVars, ev_writer_pc, ev_file, csv_logged,
                   csv_writer_pc, csv_file, reporter_pc, reporter_ticks>>

\* csv_logger.close() returns; lines 887-893 end run_simulation.
CsvClosed ==
    /\ main_pc = "close_csv"
    /\ csv_writer_pc = "done"
    /\ main_pc' = "done"
    /\ UNCHANGED <<metrics, now, stop_event, apiVars, config, stage, launched, stop_cause,
                   telVars, startVars, auxVars, workerVars, sinkVars>>

\* A run that no signal interrupts: cancellation comes from the duration
\* timer or from a worker that ends.
NextRun ==
    \/ RampStage
    \/ DwellTimeout
    \/ DwellStopped
    \/ MainWaitDone
    \/ GatherDone
    \/ Shutdown
    \/ ReporterJoined
    \/ EventsClosed
    \/ CsvClosed
    \/ DurationElapsed
    \/ CsvWriterOpen
    \/ CsvWriteHeader
    \/ CsvWrite
    \/ ReporterTick
    \/ ReporterFinal
    \/ \E w \in Devices : LoopTop(w)
    \/ \E w \in Devices : ConnectOK(w)
    \/ \E w \in Devices, l \in PublishLatencies, b \in PayloadSizes : PublishOK(w, l, b)
    \/ \E w \in Devices : WaitTimeout(w)
    \/ \E w \in Devices : WaitStopped(w)
    \/ \E w \in Devices : Close(w)

SpecRun == InitRun /\ [][NextRun]_vars

\* Runs that end before the first report interval has passed, in which
\* connections of the refused devices may fail.
NextSinks ==
    \/ RampStage
    \/ MainWaitDone
    \/ GatherDone
    \/ Shutdown
    \/ ReporterJoined
    \/ EventsClosed
    \/ CsvClosed
    \/ DurationElapsed
    \/ EvWriterOpen
    \/ EvWrite
    \/ CsvWriterOpen
    \/ CsvWriteHeader
    \/ CsvWrite
    \/ ReporterFinal
    \/ \E w \in Devices : LoopTop(w)
    \/ \E w \in Devices : ConnectOK(w)
    \/ \E w \in RefusedDevices : ConnectFail(w, "mqtt_error:MqttError")
    \/ \E w \in Devices, l \in PublishLatencies, b \in PayloadSizes : PublishOK(w, l, b)
    \/ \E w \in Devices : WaitTimeout(w)
    \/ \E w \in Devices : WaitStopped(w)
    \/ \E w \in Devices : Close(w)
    \/ \E w \in Devices : BackoffDone(w)

SpecSinks == InitSinks /\ [][NextSinks]_vars

\* ------------------------------------------------------ classify_failure
\* The classes of the exceptions given to classify_failure, each with the
\* classes it inherits from (Python's built-in hierarchy).
Bases ==
    [ MemoryError |-> {"MemoryError", "Exception"},
      TimeoutError |-> {"TimeoutError", "OSError", "Exception"},
      ConnectionRefusedError |-> {"ConnectionRefusedError", "ConnectionError", "OSError",
                                  "Exception"},
      OSError |-> {"OSError", "Exception"},
      ValueError |-> {"ValueError", "Exception"},
      RuntimeError |-> {"RuntimeError", "Exception"} ]

isinstance(exc, class) == class \in Bases[exc]

\* connect_reasons: the CONNACK return codes of MQTT 3.1.1
connect_reasons ==
    (1 :> "protocol") @@ (2 :> "client-id") @@ (3 :> "broker") @@ (4 :> "auth")
    @@ (5 :> "auth")

\* error_map, by the values of paho's error codes: AGAIN -1, CONN_LOST 7,
\* CONN_REFUSED 5, NO_CONN 4, PROTOCOL 2, NOMEM 1, PAYLOAD_SIZE 9, QUEUE_SIZE 15,
\* TLS 8, AUTH 11, ACL_DENIED 12, NOT_SUPPORTED 10, KEEPALIVE 16, ERRNO 14.
error_map ==
    ((0 - 1) :> "network") @@ (7 :> "network") @@ (5 :> "network") @@ (4 :> "network")
    @@ (2 :> "protocol") @@ (1 :> "client-memory") @@ (9 :> "payload")
    @@ (15 :> "client-backpressure") @@ (8 :> "tls") @@ (11 :> "auth") @@ (12 :> "auth")
    @@ (10 :> "client") @@ (16 :> "network") @@ (14 :> "network")

\* A plausible bug: the error codes are looked up before the stage is.
classify_failure_map_first(stg, rc, exc) ==
    IF exc /= None
    THEN IF isinstance(exc[1], "MemoryError") THEN "client-memory"
         ELSE IF isinstance(exc[1], "TimeoutError") THEN "network-timeout"
         ELSE IF isinstance(exc[1], "OSError") THEN "network"
         ELSE "internal-error"
    ELSE IF rc = None THEN "unknown"
    ELSE LET rc_val == rc[1]
         IN IF rc_val \in DOMAIN error_map THEN error_map[rc_val]
            ELSE IF stg = "connect" /\ rc_val = 0 THEN "ok"
            ELSE IF stg = "connect" /\ rc_val \in DOMAIN connect_reasons
                 THEN connect_reasons[rc_val]
            ELSE IF stg = "disconnect" /\ rc_val = 0 THEN "client-request"
            ELSE "broker"

\* classify_failure: the reason tag of the pair it returns (stg is its
\* parameter `stage`).
classify_failure(stg, rc, exc) ==
    IF exc /= None
    THEN IF isinstance(exc[1], "MemoryError") THEN "client-memory"
         ELSE IF isinstance(exc[1], "TimeoutError") THEN "network-timeout"
         ELSE IF isinstance(exc[1], "OSError") THEN "network"
         ELSE "internal-error"
    ELSE IF rc = None THEN "unknown"
    ELSE LET rc_val == rc[1]
         IN IF stg = "connect" /\ rc_val = 0 THEN "ok"
            ELSE IF stg = "connect" /\ rc_val \in DOMAIN connect_reasons
                 THEN connect_reasons[rc_val]
            ELSE IF rc_val \in DOMAIN error_map THEN error_map[rc_val]
            ELSE IF stg = "disconnect" /\ rc_val = 0 THEN "client-request"
            ELSE "broker"

\* ------------------------------------------- simcore.MetricsCollector
\* DeviceStats(name=device): the fields the collector changes.  The wall-clock
\* stamps last_seen and last_failure and the text failure_detail are left out.
DeviceStats ==
    [ status |-> "pending", last_stage |-> "startup", failure_reason |-> None,
      disconnect_code |-> None, total_packets |-> 0, total_failures |-> 0 ]

\* MetricsCollector.__init__; _start_ts is time 0.
MetricsCollectorInit(device_count) ==
    [ device_count |-> device_count,
      registered_devices |-> {},
      connected |-> {},
      failed_devices |-> {},
      devices |-> EmptyMap,
      total_packets_sent |-> 0,
      total_packets_failed |-> 0,
      total_bytes |-> 0,
      collapse_time |-> None,
      failure_breakdown |-> EmptyMap ]

\* self._devices.setdefault(device, DeviceStats(name=device))
setdefault_stats(m, device) ==
    IF device \in DOMAIN m.devices THEN m.devices[device] ELSE DeviceStats

\* The dict with `stats` stored under `device`.
with_stats(m, device, stats) ==
    [x \in DOMAIN m.devices \cup {device} |-> IF x = device THEN stats ELSE m.devices[x]]

\* `if not self._connected and self._collapse_time is None`, at time t
collapse_if_empty(m, t) ==
    IF m.connected = {} /\ m.collapse_time = None
    THEN [m EXCEPT !.collapse_time = Some(t)]
    ELSE m

\* MetricsCollector.register_device
register_device(m, device) ==
    [m EXCEPT !.registered_devices = @ \cup {device},
              !.devices = with_stats(m, device, setdefault_stats(m, device))]

\* MetricsCollector.record_connect
record_connect(m, device) ==
    [m EXCEPT !.devices = with_stats(m, device,
                  [setdefault_stats(m, device) EXCEPT !.status = "connected",
                                                      !.last_stage = "connect",
                                                      !.disconnect_code = Some(0)]),
              !.connected = @ \cup {device},
              !.failed_devices = @ \ {device}]

\* A plausible bug: the device stays in the connected set.
mark_failure_keeps_connected(m, device, reason, stg, disconnect_code, t) ==
    collapse_if_empty(
        [m EXCEPT !.devices = with_stats(m, device,
                      [setdefault_stats(m, device) EXCEPT !.status = "failed",
                                                          !.last_stage = stg,
                                                          !.failure_reason = Some(reason),
                                                          !.disconnect_code = disconnect_code,
                                                          !.total_failures = @ + 1]),
                  !.failure_breakdown = Incr(@, reason, 1),
                  !.failed_devices = @ \cup {device}],
        t)

\* MetricsCollector._mark_failure_locked (stg is its parameter `stage`, t the
\* value of time.perf_counter() - self._start_ts)
mark_failure_locked(m, device, reason, stg, disconnect_code, t) ==
    collapse_if_empty(
        [m EXCEPT !.devices = with_stats(m, device,
                      [setdefault_stats(m, device) EXCEPT !.status = "failed",
                                                          !.last_stage = stg,
                                                          !.failure_reason = Some(reason),
                                                          !.disconnect_code = disconnect_code,
                                                          !.total_failures = @ + 1]),
                  !.failure_breakdown = Incr(@, reason, 1),
                  !.failed_devices = @ \cup {device},
                  !.connected = @ \ {device}],
        t)

\* MetricsCollector.record_failure
record_failure(m, device, reason, stg, disconnect_code, t) ==
    mark_failure_locked(m, device, reason, stg, disconnect_code, t)

\* MetricsCollector.record_connect_failure
record_connect_failure(m, device, rc, t) ==
    record_failure(m, device, classify_failure("connect", Some(rc), None), "connect",
                   Some(rc), t)

\* MetricsCollector.record_disconnect
record_disconnect(m, device, rc, t) ==
    IF rc /= 0
    THEN record_failure(m, device, classify_failure("disconnect", Some(rc), None),
                        "disconnect", Some(rc), t)
    ELSE collapse_if_empty(
             [m EXCEPT !.devices = with_stats(m, device,
                           [setdefault_stats(m, device) EXCEPT !.status = "disconnected",
                                                               !.last_stage = "disconnect",
                                                               !.disconnect_code = Some(0)]),
                       !.connected = @ \ {device},
                       !.failed_devices = @ \ {device}],
             t)

\* MetricsCollector.record_publish: the counters of the call, then the branch
\* on `success`.
record_publish(m, device, payload_size, success, rc, t) ==
    LET stats == setdefault_stats(m, device)
        counted == [m EXCEPT !.total_packets_sent = @ + 1,
                             !.total_bytes = @ + payload_size]
    IN IF success
       THEN [counted EXCEPT !.devices = with_stats(m, device,
                                [stats EXCEPT !.total_packets = @ + 1,
                                              !.status = "connected",
                                              !.last_stage = "publish"]),
                            !.connected = @ \cup {device},
                            !.failed_devices = @ \ {device}]
       ELSE mark_failure_locked(
                [counted EXCEPT !.total_packets_failed = @ + 1,
                                !.devices = with_stats(m, device,
                                    [stats EXCEPT !.total_packets = @ + 1,
                                                  !.total_failures = @ + 1])],
                device, classify_failure("publish", rc, None), "publish", None, t)

\* MetricsCollector.record_exception (exc is the class of the exception)
record_exception(m, device, exc, t) ==
    record_failure(m, device, classify_failure("exception", None, Some(exc)),
                   "exception", None, t)

\* What the callers pass: error codes of connect, of on_disconnect and of
\* publish (0 is success), and the class of an exception.
ConnectRcs == {5}
DisconnectRcs == {0, 7}
PublishRcs == {0, 4}
ExceptionClasses == {"OSError"}

\* ------------------------------------------- run_telemetry and SimLoop
\* How far time.perf_counter() advances and how many messages one SimLoop sends.
MaxClock == 4
MaxTicks == 2

\* config.publish_interval of the runs, in clock ticks.
PublishIntervals == {1, 2}

\* StartCoordinator._lead_time = max(lead_time, 0.05), in clock ticks.
LeadTime == 1

\* threading.Barrier(device_count + 1)
Parties == Cardinality(Devices) + 1

\* A plausible bug: StartCoordinator.wait returns without waiting for the event.
coordinator_wait_unblocked(ev) == TRUE

\* StartCoordinator.wait: self._event.wait() has returned.
coordinator_wait_returns(ev) == ev

\* StopSignal._check_flag: the value of the event after it.
check_flag(ev, flag) == ev \/ flag /= None

\* The target SimLoop.run computes after a publish; index is tick_index after
\* `tick_index += 1`.
next_tick_after(start, index, interval) == start + (index + 1) * interval

\* main has started every SimLoop and is about to call barrier.wait().
\* main, lines 52-53: metrics.register_device(name) for each device.
RECURSIVE registered(_, _)
registered(m, names) ==
    IF names = <<>> THEN m ELSE registered(register_device(m, Head(names)), Tail(names))

\* SimLoop.run, lines 585-590: client.loop_stop() and client.disconnect() of a
\* connected client; paho calls on_disconnect with rc 0 once the DISCONNECT
\* packet is written, and on_disconnect calls record_disconnect.
client_disconnect(m, device, t) == record_disconnect(m, device, 0, t)

InitTelemetry ==
    /\ metrics = registered(MetricsCollectorInit(Cardinality(Devices)), DeviceList)
    /\ now = 0
    /\ stop_event = FALSE
    /\ last_call = NoCall
    /\ summary_pc = "off"
    /\ snap = None
    /\ summary_result = None
    /\ SimIdle
    /\ publish_interval \in PublishIntervals
    /\ clock = 0
    /\ tel_main = "start"
    /\ loop_pc = [w \in Devices |-> "connecting"]
    /\ barrier_count = 0
    /\ barrier_index = [p \in Threads |-> None]
    /\ running_event = FALSE
    /\ coord_event = FALSE
    /\ coord_start_time = 0
    /\ release_calls = 0
    /\ flag_file = None
    /\ stop_signal_event = FALSE
    /\ start_time = [w \in Devices |-> None]
    /\ next_tick = [w \in Devices |-> 0]
    /\ tick_index = [w \in Devices |-> 0]
    /\ StartIdle
    /\ AuxIdle
    /\ SinksIdle

otherVars == <<now, stop_event, apiVars, simVars, extVars>>

\* Barrier.wait: the caller takes the next index and waits.
BarrierArrive(p) ==
    /\ barrier_index' = [barrier_index EXCEPT ![p] = Some(barrier_count)]
    /\ barrier_count' = barrier_count + 1

\* Barrier.wait returns once all parties have arrived.
BarrierOpen == barrier_count = Parties

\* The clock advances.
Tick ==
    /\ clock < MaxClock
    /\ clock' = clock + 1
    /\ UNCHANGED <<metrics, otherVars, publish_interval, tel_main, loop_pc, barrier_count,
                   barrier_index, running_event, coord_event, coord_start_time,
                   release_calls, flag_file, stop_signal_event, start_time, next_tick,
                   tick_index>>

\* stop_telemetry.py creates stop.flag.
CreateStopFlag ==
    /\ tel_main \notin {"off", "done"}
    /\ flag_file = None
    /\ flag_file' = Some(clock)
    /\ UNCHANGED <<metrics, otherVars, publish_interval, clock, tel_main, loop_pc, barrier_count,
                   barrier_index, running_event, coord_event, coord_start_time,
                   release_calls, stop_signal_event, start_time, next_tick, tick_index>>

\* status_getter on the MetricsWriter thread: stop_signal.is_set().
StatusGetter ==
    /\ tel_main \notin {"off", "done"}
    /\ running_event
    /\ stop_signal_event' = check_flag(stop_signal_event, flag_file)
    /\ UNCHANGED <<metrics, otherVars, publish_interval, clock, tel_main, loop_pc, barrier_count,
                   barrier_index, running_event, coord_event, coord_start_time,
                   release_calls, flag_file, start_time, next_tick, tick_index>>

\* main, line 108: barrier.wait() is called.
MainBarrierWait ==
    /\ tel_main = "start"
    /\ BarrierArrive("main")
    /\ tel_main' = "at_barrier"
    /\ UNCHANGED <<metrics, otherVars, publish_interval, clock, loop_pc, running_event,
                   coord_event, coord_start_time, release_calls, flag_file,
                   stop_signal_event, start_time, next_tick, tick_index>>

\* main, lines 108-121: barrier.wait() returns start_index; the first thread
\* at the barrier releases the coordinator, any other waits for it.
MainBarrierPass ==
    /\ tel_main = "at_barrier"
    /\ BarrierOpen
    /\ running_event' = TRUE
    /\ tel_main' = IF barrier_index["main"] = Some(0) THEN "release" ELSE "coordinator_wait"
    /\ UNCHANGED <<metrics, otherVars, publish_interval, clock, loop_pc, barrier_count,
                   barrier_index, coord_event, coord_start_time, release_calls,
                   flag_file, stop_signal_event, start_time, next_tick, tick_index>>

\* StartCoordinator.release, first statement: the start time is computed.
ReleaseSetTime ==
    /\ tel_main = "release"
    /\ coord_start_time' = clock + LeadTime
    /\ release_calls' = release_calls + 1
    /\ tel_main' = "release_set"
    /\ UNCHANGED <<metrics, otherVars, publish_interval, clock, loop_pc, barrier_count,
                   barrier_index, running_event, coord_event, flag_file,
                   stop_signal_event, start_time, next_tick, tick_index>>

\* StartCoordinator.release, second statement: the event is set.
ReleaseSetEvent ==
    /\ tel_main = "release_set"
    /\ coord_event' = TRUE
    /\ tel_main' = "poll"
    /\ UNCHANGED <<metrics, otherVars, publish_interval, clock, loop_pc, barrier_count,
                   barrier_index, running_event, coord_start_time, release_calls,
                   flag_file, stop_signal_event, start_time, next_tick, tick_index>>

\* main, lines 132-133: one test of `while not stop_signal.is_set()`, reached
\* after release() or after coordinator.wait() has returned.
MainPoll ==
    /\ \/ tel_main = "poll"
       \/ tel_main = "coordinator_wait" /\ coordinator_wait_returns(coord_event)
    /\ stop_signal_event' = check_flag(stop_signal_event, flag_file)
    /\ tel_main' = IF check_flag(stop_signal_event, flag_file) THEN "finally" ELSE "poll"
    /\ UNCHANGED <<metrics, otherVars, publish_interval, clock, loop_pc, barrier_count,
                   barrier_index, running_event, coord_event, coord_start_time,
                   release_calls, flag_file, start_time, next_tick, tick_index>>

\* main, lines 134-136: Ctrl+C during the loop, stop_signal.trip().
MainInterrupt ==
    /\ tel_main = "poll"
    /\ stop_signal_event' = TRUE
    /\ tel_main' = "finally"
    /\ UNCHANGED <<metrics, otherVars, publish_interval, clock, loop_pc, barrier_count,
                   barrier_index, running_event, coord_event, coord_start_time,
                   release_calls, flag_file, start_time, next_tick, tick_index>>

\* main, line 138: stop_signal.trip() of the finally block.
MainTrip ==
    /\ tel_main = "finally"
    /\ stop_signal_event' = TRUE
    /\ tel_main' = "joining"
    /\ UNCHANGED <<metrics, otherVars, publish_interval, clock, loop_pc, barrier_count,
                   barrier_index, running_event, coord_event, coord_start_time,
                   release_calls, flag_file, start_time, next_tick, tick_index>>

\* main, lines 139-142: the joins return or time out, then clear_flag().
MainCleanup ==
    /\ tel_main = "joining"
    /\ flag_file' = None
    /\ tel_main' = "done"
    /\ UNCHANGED <<metrics, otherVars, publish_interval, clock, loop_pc, barrier_count,
                   barrier_index, running_event, coord_event, coord_start_time,
                   release_calls, stop_signal_event, start_time, next_tick, tick_index>>

\* SimLoop.run: connect succeeds, loop_start(), barrier.wait() is called.
SimConnect(w) ==
    /\ loop_pc[w] = "connecting"
    /\ BarrierArrive(w)
    /\ loop_pc' = [loop_pc EXCEPT ![w] = "at_barrier"]
    /\ metrics' = record_connect(metrics, w)
    /\ UNCHANGED <<otherVars, publish_interval, clock, tel_main, running_event,
                   coord_event, coord_start_time, release_calls, flag_file,
                   stop_signal_event, start_time, next_tick, tick_index>>

\* SimLoop.run: connect returns an error code or raises; run returns.
SimConnectFail(w) ==
    /\ loop_pc[w] = "connecting"
    /\ loop_pc' = [loop_pc EXCEPT ![w] = "exited"]
    /\ \/ \E rc \in ConnectRcs : metrics' = record_connect_failure(metrics, w, rc, clock)
       \/ \E exc \in ExceptionClasses : metrics' = record_exception(metrics, w, exc, clock)
    /\ UNCHANGED <<otherVars, publish_interval, clock, tel_main, barrier_count,
                   barrier_index, running_event, coord_event, coord_start_time,
                   release_calls, flag_file, stop_signal_event, start_time, next_tick,
                   tick_index>>

\* SimLoop.run: barrier.wait() returns, start_coordinator.wait() is called.
SimBarrierPass(w) ==
    /\ loop_pc[w] = "at_barrier"
    /\ BarrierOpen
    /\ loop_pc' = [loop_pc EXCEPT ![w] = "coordinator_wait"]
    /\ UNCHANGED <<metrics, otherVars, publish_interval, clock, tel_main, barrier_count,
                   barrier_index, running_event, coord_event, coord_start_time,
                   release_calls, flag_file, stop_signal_event, start_time, next_tick,
                   tick_index>>

\* SimLoop.run, lines 567-569: start_coordinator.wait() returns.
SimStart(w) ==
    /\ loop_pc[w] = "coordinator_wait"
    /\ coordinator_wait_returns(coord_event)
    /\ start_time' = [start_time EXCEPT ![w] = Some(coord_start_time)]
    /\ next_tick' = [next_tick EXCEPT ![w] = coord_start_time]
    /\ tick_index' = [tick_index EXCEPT ![w] = 0]
    /\ loop_pc' = [loop_pc EXCEPT ![w] = "loop_top"]
    /\ UNCHANGED <<metrics, otherVars, publish_interval, clock, tel_main, barrier_count,
                   barrier_index, running_event, coord_event, coord_start_time,
                   release_calls, flag_file, stop_signal_event>>

\* SimLoop.run, lines 574-581: the message is published and the next target
\* is computed.
SimPublish(w) ==
    /\ tick_index[w] < MaxTicks
    /\ \E b \in PayloadSizes, rc \in PublishRcs :
          metrics' = record_publish(metrics, w, b, rc = 0, Some(rc), clock)
    /\ tick_index' = [tick_index EXCEPT ![w] = @ + 1]
    /\ next_tick' = [next_tick EXCEPT ![w] =
           next_tick_after(start_time[w][1], tick_index[w] + 1, publish_interval)]
    /\ loop_pc' = [loop_pc EXCEPT ![w] = "loop_top"]

\* SimLoop.run, lines 570-572: the loop condition, wait_time, and
\* stop_signal.sleep up to the point where it blocks in Event.wait or returns.
SimLoopTop(w) ==
    /\ loop_pc[w] = "loop_top"
    /\ stop_signal_event' = check_flag(stop_signal_event, flag_file)
    /\ IF check_flag(stop_signal_event, flag_file)
       THEN /\ loop_pc' = [loop_pc EXCEPT ![w] = "exited"]
            /\ metrics' = client_disconnect(metrics, w, clock)
            /\ UNCHANGED <<tick_index, next_tick>>
       ELSE IF next_tick[w] - clock <= 0
       THEN SimPublish(w)
       ELSE /\ loop_pc' = [loop_pc EXCEPT ![w] = "sleeping"]
            /\ UNCHANGED <<metrics, tick_index, next_tick>>
    /\ UNCHANGED <<otherVars, publish_interval, clock, tel_main, barrier_count,
                   barrier_index, running_event, coord_event, coord_start_time,
                   release_calls, flag_file, start_time>>

\* Event.wait(timeout) returns True: the event was set during the sleep.
SimWakeByEvent(w) ==
    /\ loop_pc[w] = "sleeping"
    /\ stop_signal_event
    /\ loop_pc' = [loop_pc EXCEPT ![w] = "exited"]
    /\ metrics' = client_disconnect(metrics, w, clock)
    /\ UNCHANGED <<otherVars, publish_interval, clock, tel_main, barrier_count,
                   barrier_index, running_event, coord_event, coord_start_time,
                   release_calls, flag_file, stop_signal_event, start_time, next_tick,
                   tick_index>>

\* Event.wait(timeout) times out and returns False: the worker publishes.
SimWakeByTimeout(w) ==
    /\ loop_pc[w] = "sleeping"
    /\ ~stop_signal_event
    /\ clock >= next_tick[w]
    /\ SimPublish(w)
    /\ UNCHANGED <<otherVars, publish_interval, clock, tel_main, barrier_count,
                   barrier_index, running_event, coord_event, coord_start_time,
                   release_calls, flag_file, stop_signal_event, start_time>>

NextTelemetry ==
    \/ Tick
    \/ CreateStopFlag
    \/ StatusGetter
    \/ MainBarrierWait
    \/ MainBarrierPass
    \/ ReleaseSetTime
    \/ ReleaseSetEvent
    \/ MainPoll
    \/ MainInterrupt
    \/ MainTrip
    \/ MainCleanup
    \/ \E w \in Devices : SimConnect(w)
    \/ \E w \in Devices : SimConnectFail(w)
    \/ \E w \in Devices : SimBarrierPass(w)
    \/ \E w \in Devices : SimStart(w)
    \/ \E w \in Devices : SimLoopTop(w)
    \/ \E w \in Devices : SimWakeByEvent(w)
    \/ \E w \in Devices : SimWakeByTimeout(w)

SpecTelemetry == InitTelemetry /\ [][NextTelemetry]_vars

\* The steps of the main thread (Ctrl+C is not one: it need not happen).
MainThread ==
    \/ MainBarrierWait
    \/ MainBarrierPass
    \/ ReleaseSetTime
    \/ ReleaseSetEvent
    \/ MainPoll
    \/ MainTrip
    \/ MainCleanup

\* The steps of the SimLoop thread of device w.
SimThread(w) ==
    \/ SimConnect(w)
    \/ SimConnectFail(w)
    \/ SimBarrierPass(w)
    \/ SimStart(w)
    \/ SimLoopTop(w)
    \/ SimWakeByEvent(w)
    \/ SimWakeByTimeout(w)

\* Every thread that can run is scheduled and the clock advances.
SpecTelemetryFair ==
    /\ SpecTelemetry
    /\ WF_vars(MainThread)
    /\ \A w \in Devices : WF_vars(SimThread(w))
    /\ WF_vars(Tick)

\* ------------------------------------------- the start of run_simulation
\* Longest --ramp and --ramp-percentages lists given.
MaxRampLen == 3
MaxPctLen == 2

\* All sequences over S of length at most n.
SeqsUpTo(S, n) == UNION {[1..k -> S] : k \in 0..n}

\* What a function returns: a value, or the exception it raises.
Return(v) == [raised |-> FALSE, value |-> v]
Raise == [raised |-> TRUE, value |-> <<>>]

\* A plausible bug: the fleet size is not appended as the last stage.
parse_ramp_no_append(ramp_values, total_devices) ==
    IF ramp_values = <<>> THEN Return(<<total_devices>>)
    ELSE IF \E i \in 1..Len(ramp_values) : ramp_values[i] <= 0 THEN Raise
    ELSE IF \E i \in 1..(Len(ramp_values) - 1) : ramp_values[i + 1] < ramp_values[i]
    THEN Raise
    ELSE IF ramp_values[Len(ramp_values)] > total_devices THEN Raise
    ELSE Return(ramp_values)

\* parse_ramp; None and the empty list are both <<>>.
parse_ramp(ramp_values, total_devices) ==
    IF ramp_values = <<>> THEN Return(<<total_devices>>)
    ELSE IF \E i \in 1..Len(ramp_values) : ramp_values[i] <= 0 THEN Raise
    ELSE IF \E i \in 1..(Len(ramp_values) - 1) : ramp_values[i + 1] < ramp_values[i]
    THEN Raise
    ELSE IF ramp_values[Len(ramp_values)] > total_devices THEN Raise
    ELSE IF ramp_values[Len(ramp_values)] < total_devices
    THEN Return(Append(ramp_values, total_devices))
    ELSE Return(ramp_values)

\* One value of --ramp-percentages: blank text, text that float() rejects, or
\* a number, given in hundredths, with or without a trailing "%".
Blank == [kind |-> "blank", h |-> 0, sign |-> FALSE]
Bad == [kind |-> "bad", h |-> 0, sign |-> FALSE]
Num(h) == [kind |-> "num", h |-> h, sign |-> FALSE]
NumSign(h) == [kind |-> "num", h |-> h, sign |-> TRUE]

\* A float: h hundredths, plus or minus a rounding error (e = 1, -1) too
\* small to reach the next hundredth.
Float(h, e) == [h |-> h, e |-> e]
FloatLess(a, b) == a.h < b.h \/ (a.h = b.h /\ a.e < b.e)

\* The rounding error of `number *= 100` in binary64, for the fractions of
\* PctTokens: float("0.07") * 100 is 7.000000000000001, 0.5 * 100 and
\* 1.0 * 100 are exact.
Times100Error(h) == IF h = 7 THEN 1 ELSE 0

\* math.ceil(total_devices * pct / 100)
ceil_count(total_devices, pct) ==
    LET x == total_devices * pct.h
    IN IF x % 10000 = 0
       THEN (x \div 10000) + (IF pct.e > 0 THEN 1 ELSE 0)
       ELSE (x \div 10000) + 1

\* The first loop of parse_ramp_percentages (lines 599-614): the list
\* `percentages`, or the ValueError of the first value that is rejected.
RECURSIVE percentages_of(_, _)
percentages_of(values, acc) ==
    IF values = <<>> THEN Return(acc)
    ELSE LET raw == Head(values)
         IN IF raw.kind = "blank" THEN percentages_of(Tail(values), acc)
            ELSE IF raw.kind = "bad" THEN Raise
            ELSE IF raw.h <= 0 THEN Raise
            ELSE LET number == IF raw.h <= 100
                               THEN Float(raw.h * 100, Times100Error(raw.h))
                               ELSE Float(raw.h, 0)
                 IN IF FloatLess(Float(10000, 0), number) THEN Raise
                    ELSE percentages_of(Tail(values), Append(acc, number))

\* The second loop of parse_ramp_percentages (lines 619-626).
RECURSIVE counts_of(_, _, _)
counts_of(percentages, total_devices, acc) ==
    IF percentages = <<>> THEN acc
    ELSE LET c1 == Min(total_devices, Max(1, ceil_count(total_devices, Head(percentages))))
             c2 == IF acc /= <<>> /\ c1 < acc[Len(acc)] THEN acc[Len(acc)] ELSE c1
         IN counts_of(Tail(percentages), total_devices, Append(acc, c2))

\* parse_ramp_percentages; None and the empty list are both <<>>.
parse_ramp_percentages(values, total_devices) ==
    IF values = <<>> THEN Return(<<total_devices>>)
    ELSE LET p == percentages_of(values, <<>>)
         IN IF p.raised THEN Raise
            ELSE IF p.value = <<>> THEN Return(<<total_devices>>)
            ELSE IF \E i \in 1..(Len(p.value) - 1) : FloatLess(p.value[i + 1], p.value[i])
            THEN Raise
            ELSE LET seq == counts_of(p.value, total_devices, <<>>)
                 IN IF seq[Len(seq)] < total_devices
                    THEN Return(Append(seq, total_devices))
                    ELSE Return(seq)

\* A plausible bug: giving both --ramp and --ramp-percentages is not checked.
validate_without_ramp_check(a) ==
    IF a.interval <= 0 THEN Some("--interval")
    ELSE IF a.ramp_wait < 0 THEN Some("--ramp-wait")
    ELSE IF a.duration < 0 THEN Some("--duration")
    ELSE IF a.device_count < 0 THEN Some("--device-count")
    ELSE IF a.count /= None /\ a.count[1] <= 0 THEN Some("--count")
    ELSE IF ~a.disable_dashboard /\ a.metrics_refresh <= 0 THEN Some("--metrics-refresh")
    ELSE None

\* The checks of run_simulation, lines 725-738: the option whose check raises
\* SystemExit, or None.
validate(a) ==
    IF a.interval <= 0 THEN Some("--interval")
    ELSE IF a.ramp_wait < 0 THEN Some("--ramp-wait")
    ELSE IF a.duration < 0 THEN Some("--duration")
    ELSE IF a.device_count < 0 THEN Some("--device-count")
    ELSE IF a.count /= None /\ a.count[1] <= 0 THEN Some("--count")
    ELSE IF a.ramp /= <<>> /\ a.ramp_percentages /= <<>> THEN Some("--ramp")
    ELSE IF ~a.disable_dashboard /\ a.metrics_refresh <= 0 THEN Some("--metrics-refresh")
    ELSE None

\* Arguments that pass every check; `selected` is len(selected_devices), what
\* prepare_selected_devices returns for them.
BaseArgs ==
    [ interval |-> 1, ramp_wait |-> 0, duration |-> 0, device_count |-> 2, count |-> None,
      ramp |-> <<>>, ramp_percentages |-> <<>>, disable_dashboard |-> FALSE,
      metrics_refresh |-> 1, selected |-> 2 ]

\* Arguments around each check of run_simulation.
ValidationArgs ==
    [ interval : {0, 1}, ramp_wait : {-1, 0}, duration : {-1, 0}, device_count : {-1, 2},
      count : {None, Some(0), Some(2)}, ramp : {<<>>, <<1, 2>>},
      ramp_percentages : {<<>>, <<Num(5000), Num(10000)>>},
      disable_dashboard : BOOLEAN, metrics_refresh : {0, 1}, selected : {2} ]

\* --ramp lists and fleet sizes.
RampValues == {0, 1, 2, 3, 4}
RampFleets == {1, 2, 3}
RampArgs ==
    { [BaseArgs EXCEPT !.ramp = r, !.selected = n] :
        r \in SeqsUpTo(RampValues, MaxRampLen) \ {<<>>}, n \in RampFleets }

\* --ramp-percentages lists and fleet sizes: 0, 0.07, 0.5, 1, 25, 50, "50%",
\* 100 and 150, blank and malformed text; and the list 25 50 100.
PctTokens ==
    {Blank, Bad, Num(0), Num(7), Num(50), Num(100), Num(2500), Num(5000), NumSign(5000),
     Num(10000), Num(15000)}
PctFleets == {1, 2, 3, 10, 100}
PctArgs ==
    { [BaseArgs EXCEPT !.ramp_percentages = r, !.selected = n] :
        r \in (SeqsUpTo(PctTokens, MaxPctLen) \ {<<>>})
              \cup {<<Num(2500), Num(5000), Num(10000)>>},
        n \in PctFleets }

\* run_simulation is called.
InitStartup ==
    /\ metrics = MetricsAggregatorInit(0)
    /\ now = 0
    /\ stop_event = FALSE
    /\ last_call = NoCall
    /\ summary_pc = "off"
    /\ snap = None
    /\ summary_result = None
    /\ SimIdle
    /\ TelIdle
    /\ SinksIdle
    /\ AuxIdle
    /\ args \in {Some(a) : a \in ValidationArgs \cup RampArgs \cup PctArgs}
    /\ startup_pc = "validate"
    /\ exit_status = None
    /\ ramp_sequence = None
    /\ sinks_started = FALSE
    /\ workers_created = FALSE

nonStartVars == <<metrics, now, stop_event, apiVars, simVars, telVars, sinkVars, auxVars>>

\* run_simulation, lines 723-738: SystemExit with a message ends the process
\* with status 1.
Validate ==
    /\ startup_pc = "validate"
    /\ IF validate(args[1]) /= None
       THEN startup_pc' = "exited" /\ exit_status' = Some(1)
       ELSE startup_pc' = "prepare" /\ UNCHANGED exit_status
    /\ UNCHANGED <<nonStartVars, args, ramp_sequence, sinks_started, workers_created>>

\* run_simulation, lines 740-745: the ramp is parsed; a ValueError is caught
\* nowhere and ends the process with status 1.
ParseRamp ==
    /\ startup_pc = "prepare"
    /\ LET a == args[1]
           r == IF a.ramp_percentages /= <<>>
                THEN parse_ramp_percentages(a.ramp_percentages, a.selected)
                ELSE parse_ramp(a.ramp, a.selected)
       IN IF r.raised
          THEN startup_pc' = "exited" /\ exit_status' = Some(1) /\ UNCHANGED ramp_sequence
          ELSE startup_pc' = "sinks" /\ ramp_sequence' = Some(r.value)
                                      /\ UNCHANGED exit_status
    /\ UNCHANGED <<nonStartVars, args, sinks_started, workers_created>>

\* run_simulation, lines 746-778: the loggers are built and started.
StartSinks ==
    /\ startup_pc = "sinks"
    /\ sinks_started' = TRUE
    /\ startup_pc' = "workers"
    /\ UNCHANGED <<nonStartVars, args, exit_status, ramp_sequence, workers_created>>

\* run_simulation, lines 829-844: device_workers is built.
CreateWorkers ==
    /\ startup_pc = "workers"
    /\ workers_created' = TRUE
    /\ startup_pc' = "running"
    /\ UNCHANGED <<nonStartVars, args, exit_status, ramp_sequence, sinks_started>>

NextStartup ==
    \/ Validate
    \/ ParseRamp
    \/ StartSinks
    \/ CreateWorkers

SpecStartup == InitStartup /\ [][NextStartup]_vars

\* ------------------------------------- the calls of classify_failure
\* The arguments of the calls: the stages of the callers, every error code of
\* paho and its neighbours, and exceptions of the classes above.
Stages == {"connect", "disconnect", "publish", "exception"}
MinRc == 0 - 2
MaxRc == 17
RcInputs == {None} \cup {Some(r) : r \in MinRc..MaxRc}
ExcInputs == {None} \cup {Some(c) : c \in DOMAIN Bases}

InitClassify ==
    /\ metrics = MetricsAggregatorInit(0)
    /\ now = 0
    /\ stop_event = FALSE
    /\ last_call = NoCall
    /\ summary_pc = "off"
    /\ snap = None
    /\ summary_result = None
    /\ SimIdle
    /\ TelIdle
    /\ StartIdle
    /\ SinksIdle
    /\ call_args \in {Some([stage |-> st, rc |-> rc, exc |-> e]) :
                         st \in Stages, rc \in RcInputs, e \in ExcInputs}
    /\ call_result = None
    /\ OrchIdle
    /\ CollectorIdle
    /\ CoreIdle

\* What a call of a pure function leaves alone.
nonAuxVars == <<metrics, now, stop_event, apiVars, simVars, telVars, startVars, sinkVars,
                orchVars, collectorVars, coreVars>>

\* classify_failure(stage, rc, exc) returns.
Classify ==
    /\ call_result = None
    /\ call_result' = Some(classify_failure(call_args[1].stage, call_args[1].rc,
                                            call_args[1].exc))
    /\ UNCHANGED <<nonAuxVars, call_args>>

NextClassify == Classify

SpecClassify == InitClassify /\ [][NextClassify]_vars

\* ------------------------------------ snapshots of recorded latencies
\* Latency samples recorded before one snapshot.
MaxSamples == 4
SampleValues == {1, 2, 5}

\* The aggregator after record_publish_success for each sample, in order.
RECURSIVE record_samples(_, _)
record_samples(m, samples) ==
    IF samples = <<>> THEN m
    ELSE record_samples(record_publish_success(m, DeviceList[1], Head(samples), 1),
                        Tail(samples))

InitSnapshot ==
    /\ metrics = MetricsAggregatorInit(1)
    /\ now = 0
    /\ stop_event = FALSE
    /\ last_call = NoCall
    /\ summary_pc = "off"
    /\ snap = None
    /\ summary_result = None
    /\ SimIdle
    /\ TelIdle
    /\ StartIdle
    /\ SinksIdle
    /\ call_args \in {Some([samples |-> x]) : x \in SeqsUpTo(SampleValues, MaxSamples)}
    /\ call_result = None
    /\ OrchIdle
    /\ CollectorIdle
    /\ CoreIdle

\* The samples are recorded and snapshot() is called.
TakeSnapshot ==
    /\ call_result = None
    /\ LET m == record_samples(metrics, call_args[1].samples)
       IN /\ call_result' = Some(snapshot(m, now))
          /\ metrics' = ensure_sorted_latencies(m)
    /\ UNCHANGED <<now, stop_event, apiVars, simVars, telVars, startVars, sinkVars, call_args,
                   orchVars, collectorVars, coreVars>>

NextSnapshot == TakeSnapshot

SpecSnapshot == InitSnapshot /\ [][NextSnapshot]_vars

\* ---------------------------------------------------------- orchestrate
\* Fleet sizes and values of --max-clients-per-process (argparse accepts any
\* int; the default is 400) and of --start-id.
MaxFleet == 4
MaxCap == 3
FleetSizes == 1 .. MaxFleet
Caps == 0 .. MaxCap
StartIds == {0, 1}

\* max_per_process = max(1, args.max_clients_per_process)
max_per_process(a) == Max(1, a.max_clients_per_process)

\* split_required: sys.platform starts with "win" and the fleet exceeds the cap.
split_required(a) == a.win /\ a.total_devices > max_per_process(a)

\* A plausible bug: every shard is given a full slice.
shard_count_full(a, offset) == max_per_process(a)

\* shard_count = min(max_per_process, total_devices - offset)
shard_count(a, offset) == Min(max_per_process(a), a.total_devices - offset)

\* range(0, total_devices, max_per_process)[k], k counted from 0
shard_offset(a, k) == k * max_per_process(a)

InitOrchestrate ==
    /\ metrics = MetricsAggregatorInit(0)
    /\ now = 0
    /\ stop_event = FALSE
    /\ last_call = NoCall
    /\ summary_pc = "off"
    /\ snap = None
    /\ summary_result = None
    /\ SimIdle
    /\ TelIdle
    /\ StartIdle
    /\ SinksIdle
    /\ call_args = None
    /\ call_result = None
    /\ CollectorIdle
    /\ CoreIdle
    /\ orch_args \in {Some([start_id |-> b, total_devices |-> n,
                            max_clients_per_process |-> c, win |-> w]) :
                         b \in StartIds, n \in FleetSizes, c \in Caps, w \in BOOLEAN}
    /\ orch_pc = "start"
    /\ children = <<>>
    /\ processes = <<>>
    /\ exit_codes = <<>>

nonOrchVars == <<metrics, now, stop_event, apiVars, simVars, telVars, startVars, sinkVars,
                 call_args, call_result, collectorVars, coreVars>>

\* The devices are counted and the topology is decided.
Decide ==
    /\ orch_pc = "start"
    /\ orch_pc' = IF split_required(orch_args[1]) THEN "popen" ELSE "run_worker"
    /\ UNCHANGED <<nonOrchVars, orch_args, children, processes, exit_codes>>

\* run_worker(args) returns (it handles KeyboardInterrupt itself).
RunWorkerReturns ==
    /\ orch_pc = "run_worker"
    /\ orch_pc' = "done"
    /\ UNCHANGED <<nonOrchVars, orch_args, children, processes, exit_codes>>

\* proc = subprocess.Popen(cmd) with --start-id and --count of the shard.
Popen ==
    /\ orch_pc = "popen"
    /\ LET a == orch_args[1]
           offset == shard_offset(a, Len(processes))
       IN children' = Append(children, [start |-> a.start_id + offset,
                                        count |-> shard_count(a, offset),
                                        state |-> "running",
                                        code |-> 0,
                                        terminated |-> FALSE])
    /\ orch_pc' = "append"
    /\ UNCHANGED <<nonOrchVars, orch_args, processes, exit_codes>>

\* processes.append((shard_index, proc)), then the next offset of the range.
AppendProcess ==
    /\ orch_pc = "append"
    /\ processes' = Append(processes, <<Len(processes), Len(children)>>)
    /\ orch_pc' = IF shard_offset(orch_args[1], Len(processes) + 1)
                        < orch_args[1].total_devices
                   THEN "popen" ELSE "wait"
    /\ UNCHANGED <<nonOrchVars, orch_args, children, exit_codes>>

\* A shard process ends by itself (a hung shard never does).
ShardExits(i, code) ==
    /\ orch_pc /= "off"
    /\ i \in DOMAIN children
    /\ children[i].state = "running"
    /\ ~children[i].terminated
    /\ children' = [children EXCEPT ![i].state = "exited", ![i].code = code]
    /\ UNCHANGED <<nonOrchVars, orch_args, orch_pc, processes, exit_codes>>

\* code = proc.wait() returns for the next entry of processes.
WaitProc ==
    /\ orch_pc = "wait"
    /\ Len(exit_codes) < Len(processes)
    /\ LET proc == children[processes[Len(exit_codes) + 1][2]]
       IN /\ proc.state = "exited"
          /\ exit_codes' = Append(exit_codes, proc.code)
    /\ UNCHANGED <<nonOrchVars, orch_args, orch_pc, children, processes>>

\* Every shard was waited for: SystemExit if a code is not 0.
OrchestrateEnds ==
    /\ orch_pc = "wait"
    /\ Len(exit_codes) = Len(processes)
    /\ orch_pc' = IF \E k \in DOMAIN exit_codes : exit_codes[k] /= 0
                   THEN "system_exit" ELSE "done"
    /\ UNCHANGED <<nonOrchVars, orch_args, children, processes, exit_codes>>

\* except KeyboardInterrupt: proc.terminate() for the entries of processes,
\* then the exception is raised again.  KeyboardInterrupt is raised between any
\* two instructions of the try block.
KeyboardInterrupt ==
    /\ orch_pc \in {"popen", "append", "wait"}
    /\ children' = [i \in DOMAIN children |->
                       IF /\ \E k \in DOMAIN processes : processes[k][2] = i
                          /\ children[i].state = "running"
                       THEN [children[i] EXCEPT !.terminated = TRUE]
                       ELSE children[i]]
    /\ orch_pc' = "interrupted"
    /\ UNCHANGED <<nonOrchVars, orch_args, processes, exit_codes>>

\* The operating system ends a process that terminate() was called on (the
\* fleet is only split where terminate() is TerminateProcess, which the child
\* cannot handle).
ChildTerminated(i) ==
    /\ i \in DOMAIN children
    /\ children[i].state = "running"
    /\ children[i].terminated
    /\ children' = [children EXCEPT ![i].state = "exited", ![i].code = 1]
    /\ UNCHANGED <<nonOrchVars, orch_args, orch_pc, processes, exit_codes>>

OrchestrateStep ==
    \/ Decide
    \/ RunWorkerReturns
    \/ Popen
    \/ AppendProcess
    \/ WaitProc
    \/ OrchestrateEnds

NextOrchestrate ==
    \/ Decide
    \/ RunWorkerReturns
    \/ Popen
    \/ AppendProcess
    \/ WaitProc
    \/ OrchestrateEnds
    \/ KeyboardInterrupt
    \/ \E i \in 1 .. MaxFleet, code \in {0, 1} : ShardExits(i, code)
    \/ \E i \in 1 .. MaxFleet : ChildTerminated(i)

SpecOrchestrate == InitOrchestrate /\ [][NextOrchestrate]_vars

\* The orchestrator keeps running and the operating system ends the processes
\* it was told to end; a shard need not ever exit by itself.
SpecOrchestrateFair ==
    /\ SpecOrchestrate
    /\ WF_vars(OrchestrateStep)
    /\ \A i \in 1 .. MaxFleet : WF_vars(ChildTerminated(i))

\* ------------------------------------------------- GlobalMetricsCollector
\* A dict is kept in insertion order: a sequence of [key, value] entries.
dict_keys(d) == {d[i].key : i \in DOMAIN d}
dict_get(d, k) == d[CHOOSE i \in DOMAIN d : d[i].key = k].value

\* d[k] = v: a new key goes last, a known key keeps its place.
dict_set(d, k, v) ==
    IF k \in dict_keys(d)
    THEN [i \in DOMAIN d |-> IF d[i].key = k THEN [key |-> k, value |-> v] ELSE d[i]]
    ELSE Append(d, [key |-> k, value |-> v])

\* snapshot.get(key, 0) for the numeric keys
get_or_0(snapshot_, key) == IF key \in DOMAIN snapshot_ THEN snapshot_[key] ELSE 0

\* snapshot.get(key, 0.0) for the keys kept as fractions
get_or_0f(snapshot_, key) == IF key \in DOMAIN snapshot_ THEN snapshot_[key] ELSE <<0, 1>>

\* snapshot.get(key) for the optional keys
get_or_none(snapshot_, key) == IF key \in DOMAIN snapshot_ THEN snapshot_[key] ELSE None

\* The device map ingest builds from the list: items without a device are
\* skipped, a repeated device keeps its last item.
RECURSIVE device_map_of(_)
device_map_of(devices) ==
    IF devices = <<>> THEN <<>>
    ELSE LET item == devices[Len(devices)]
             before == device_map_of(SubSeq(devices, 1, Len(devices) - 1))
         IN IF item.device = "" THEN before
            ELSE dict_set(before, item.device,
                          [device |-> item.device, messages |-> item.messages,
                           failed_messages |-> item.failed_messages,
                           bytes |-> item.bytes])

\* shard_key = shard_id or "default"
shard_key_of(shard_id) == IF shard_id = "" THEN "default" ELSE shard_id

\* A plausible bug: the devices of a report are added to those of the last one.
ingest_appending(c, shard_id, snapshot_, devices) ==
    LET shard_key == shard_key_of(shard_id)
        known == IF shard_key \in dict_keys(c.devices_by_shard)
                 THEN dict_get(c.devices_by_shard, shard_key) ELSE <<>>
    IN [ snapshots |-> dict_set(c.snapshots, shard_key, snapshot_),
         devices_by_shard |-> dict_set(c.devices_by_shard, shard_key,
                                       known \o device_map_of(devices)) ]

\* GlobalMetricsCollector.ingest on the collector c = [snapshots,
\* devices_by_shard].
ingest(c, shard_id, snapshot_, devices) ==
    LET shard_key == shard_key_of(shard_id)
    IN [ snapshots |-> dict_set(c.snapshots, shard_key, snapshot_),
         devices_by_shard |-> dict_set(c.devices_by_shard, shard_key,
                                       device_map_of(devices)) ]

\* The accumulators of summary() before its loop.
summary_start ==
    [ total_devices |-> 0, total_connected |-> 0, total_active |-> 0,
      total_failed_devices |-> 0, total_success |-> 0, total_fail |-> 0,
      total_bytes |-> 0, total_bandwidth |-> <<0, 1>>,
      total_messages_per_second |-> <<0, 1>>, total_volume_mb |-> <<0, 1>>,
      total_channels |-> 0, total_peak_connected |-> 0,
      weighted_latency |-> <<0, 1>>, weighted_p50 |-> <<0, 1>>,
      weighted_p95 |-> <<0, 1>>, weighted_p99 |-> <<0, 1>>, latency_weight |-> 0,
      latest_timestamp |-> None, latest_uptime |-> <<0, 1>>,
      latest_elapsed |-> <<0, 1>>, collapse_time |-> None, collapse_reasons |-> {},
      disconnect_counter |-> EmptyMap ]

\* A plausible bug: the shard's value is added without its weight.
add_unweighted(acc, value, successes) ==
    IF value = None THEN acc ELSE RatSum(acc, RatNorm(value[1]))

\* weighted += float(value) * successes, if the value is not None
add_weighted(acc, value, successes) ==
    IF value = None THEN acc ELSE RatSum(acc, RatNorm(RatScale(value[1], successes)))

\* disconnect_counter[cause] += count for each cause of the shard
RECURSIVE add_causes(_, _, _)
add_causes(counter, causes, keys) ==
    IF keys = {} THEN counter
    ELSE LET cause == CHOOSE k \in keys : TRUE
         IN add_causes(Incr(counter, cause, causes[cause]), causes, keys \ {cause})

\* One pass of the loop of summary() over a shard's snapshot.
summary_step(acc, snapshot_) ==
    LET successes == get_or_0(snapshot_, "successful_publishes")
        avg_latency == get_or_none(snapshot_, "avg_latency_ms")
        weigh == avg_latency /= None /\ successes > 0
        ts == IF "timestamp" \in DOMAIN snapshot_ THEN Some(snapshot_.timestamp) ELSE None
        uptime == get_or_0f(snapshot_, "uptime_seconds")
        elapsed_ == get_or_0f(snapshot_, "elapsed_seconds")
        collapse_value == get_or_none(snapshot_, "collapse_time_seconds")
        reason == get_or_none(snapshot_, "collapse_reason")
        shard_disconnects == IF "disconnect_causes" \in DOMAIN snapshot_
                             THEN snapshot_.disconnect_causes ELSE EmptyMap
    IN [ total_devices |-> acc.total_devices + get_or_0(snapshot_, "total_devices"),
         total_connected |-> acc.total_connected + get_or_0(snapshot_, "connected_devices"),
         total_active |-> acc.total_active + get_or_0(snapshot_, "active_clients"),
         total_failed_devices |->
             acc.total_failed_devices + get_or_0(snapshot_, "failed_devices"),
         total_success |-> acc.total_success + successes,
         total_fail |-> acc.total_fail + get_or_0(snapshot_, "failed_publishes"),
         total_bytes |-> acc.total_bytes + get_or_0(snapshot_, "bytes_sent"),
         total_volume_mb |->
             RatSum(acc.total_volume_mb, get_or_0f(snapshot_, "data_volume_mb")),
         total_channels |-> acc.total_channels + get_or_0(snapshot_, "channels_in_use"),
         total_peak_connected |->
             acc.total_peak_connected + get_or_0(snapshot_, "peak_connected_devices"),
         total_messages_per_second |->
             RatSum(acc.total_messages_per_second,
                    get_or_0f(snapshot_, "messages_per_second")),
         total_bandwidth |->
             RatSum(acc.total_bandwidth, get_or_0f(snapshot_, "bandwidth_mbps")),
         weighted_latency |->
             IF weigh THEN add_weighted(acc.weighted_latency, avg_latency, successes)
             ELSE acc.weighted_latency,
         latency_weight |-> IF weigh THEN acc.latency_weight + successes
                            ELSE acc.latency_weight,
         weighted_p50 |->
             IF weigh THEN add_weighted(acc.weighted_p50,
                                        get_or_none(snapshot_, "p50_latency_ms"), successes)
             ELSE acc.weighted_p50,
         weighted_p95 |->
             IF weigh THEN add_weighted(acc.weighted_p95,
                                        get_or_none(snapshot_, "p95_latency_ms"), successes)
             ELSE acc.weighted_p95,
         weighted_p99 |->
             IF weigh THEN add_weighted(acc.weighted_p99,
                                        get_or_none(snapshot_, "p99_latency_ms"), successes)
             ELSE acc.weighted_p99,
         latest_timestamp |->
             IF ts = None THEN acc.latest_timestamp
             ELSE IF acc.latest_timestamp = None \/ ts[1] > acc.latest_timestamp[1]
                  THEN ts ELSE acc.latest_timestamp,
         latest_uptime |-> IF RatLeq(uptime, acc.latest_uptime)
                           THEN acc.latest_uptime ELSE uptime,
         latest_elapsed |-> IF RatLeq(elapsed_, acc.latest_elapsed)
                            THEN acc.latest_elapsed ELSE elapsed_,
         collapse_time |->
             IF collapse_value = None THEN acc.collapse_time
             ELSE IF acc.collapse_time = None \/ collapse_value[1] < acc.collapse_time[1]
                  THEN collapse_value ELSE acc.collapse_time,
         collapse_reasons |-> IF Truthy(reason) THEN acc.collapse_reasons \cup {reason[1]}
                              ELSE acc.collapse_reasons,
         disconnect_counter |->
             add_causes(acc.disconnect_counter, shard_disconnects, DOMAIN shard_disconnects) ]

\* for snapshot in self._snapshots.values()
RECURSIVE summary_loop(_, _)
summary_loop(acc, entries) ==
    IF entries = <<>> THEN acc
    ELSE summary_loop(summary_step(acc, Head(entries).value), Tail(entries))

\* The reason strings of the model in the order sorted() gives them.
SortedReasons == <<"connection failure", "disconnect", "network", "publish failure">>

\* ", ".join(sorted(reasons)), kept as the sequence of the joined strings.
sorted_join(reasons) == SelectSeq(SortedReasons, LAMBDA r : r \in reasons)

\* weighted / latency_weight if latency_weight else None
weighted_mean(weighted, latency_weight) ==
    IF latency_weight = 0 THEN None
    ELSE Some(RatNorm(<<weighted[1], weighted[2] * latency_weight>>))

\* GlobalMetricsCollector.summary over self._snapshots (timestamps are kept
\* as Optional times; the snapshot of the model carries the time itself).
\* With no snapshot the loop leaves the start values, which are the values
\* of _empty_summary().
collector_summary(snapshots_) ==
    LET acc == summary_loop(summary_start, snapshots_)
    IN [ timestamp |-> acc.latest_timestamp,
         uptime_seconds |-> acc.latest_uptime,
         elapsed_seconds |-> acc.latest_elapsed,
         total_devices |-> acc.total_devices,
         active_clients |-> acc.total_active,
         connected_devices |-> acc.total_connected,
         peak_connected_devices |-> acc.total_peak_connected,
         failed_devices |-> acc.total_failed_devices,
         successful_publishes |-> acc.total_success,
         failed_publishes |-> acc.total_fail,
         avg_latency_ms |-> weighted_mean(acc.weighted_latency, acc.latency_weight),
         p50_latency_ms |-> weighted_mean(acc.weighted_p50, acc.latency_weight),
         p95_latency_ms |-> weighted_mean(acc.weighted_p95, acc.latency_weight),
         p99_latency_ms |-> weighted_mean(acc.weighted_p99, acc.latency_weight),
         messages_per_second |-> acc.total_messages_per_second,
         bandwidth_mbps |-> acc.total_bandwidth,
         channels_in_use |-> acc.total_channels,
         bytes_sent |-> acc.total_bytes,
         data_volume_mb |-> acc.total_volume_mb,
         collapse_time_seconds |-> acc.collapse_time,
         collapse_reason |-> IF acc.collapse_reasons = {} THEN None
                             ELSE Some(sorted_join(acc.collapse_reasons)),
         disconnect_causes |-> acc.disconnect_counter ]

\* aggregated.setdefault(device, zeros) and the three += of one device entry
add_device_stats(aggregated, stats) ==
    LET known == IF stats.device \in dict_keys(aggregated)
                 THEN dict_get(aggregated, stats.device)
                 ELSE [device |-> stats.device, messages |-> 0,
                       failed_messages |-> 0, bytes |-> 0]
    IN dict_set(aggregated, stats.device,
                [device |-> stats.device,
                 messages |-> known.messages + stats.messages,
                 failed_messages |-> known.failed_messages + stats.failed_messages,
                 bytes |-> known.bytes + stats.bytes])

RECURSIVE add_shard_stats(_, _)
add_shard_stats(aggregated, shard_stats) ==
    IF shard_stats = <<>> THEN aggregated
    ELSE add_shard_stats(add_device_stats(aggregated, Head(shard_stats).value),
                         Tail(shard_stats))

RECURSIVE aggregate_devices(_, _)
aggregate_devices(aggregated, shards) ==
    IF shards = <<>> THEN aggregated
    ELSE aggregate_devices(add_shard_stats(aggregated, Head(shards).value), Tail(shards))

\* GlobalMetricsCollector.device_breakdown(limit)
collector_device_breakdown(devices_by_shard_, limit) ==
    LET aggregated == aggregate_devices(<<>>, devices_by_shard_)
        devices == sort_by_messages([i \in DOMAIN aggregated |-> aggregated[i].value])
    IN IF limit = None THEN devices ELSE slice_to(devices, limit[1])

\* The shard of this process and another shard of the fleet.
OwnShard == "00000-00002"
OtherShard == "00002-00001"

\* Calls of the aggregator's methods in this shard before the run ends.
MaxOpsCollector == 1

\* States of the aggregator of the other shard, which runs one device.
OtherStates ==
    LET m0 == MetricsAggregatorInit(1)
        m1 == record_publish_success(
                  record_publish_success(record_client_connected(m0, "d1"), "d1", 3, 2),
                  "d1", 1, 2)
        m2 == record_client_disconnected(m1, "d1", Some("network"), FALSE, 1)
        m3 == record_connection_failure(m0, "d1", None, 2)
    IN {m0, m1, m2, m3}

\* What the reporter of a shard posts: snapshot() and device_breakdown(None).
payload_of(m, t, order) ==
    [ snapshot |-> snapshot(m, t), devices |-> device_breakdown(m, None, order) ]

\* The same with the dictionary of summary() in the place of snapshot()'s:
\* it has the keys bytes_sent and peak_connected_devices, which summary()
\* of the collector reads.
summary_payload_of(m, t, order) ==
    [ snapshot |-> [ total_devices |-> Max(m.total_devices, Cardinality(m.seen_devices)),
                     peak_connected_devices |-> m.peak_connected,
                     bytes_sent |-> m.bytes_sent ] @@ snapshot(m, t),
      devices |-> device_breakdown(m, None, order) ]

OtherPayloads ==
    {payload_of(m, 2, <<"d1", "d2">>) : m \in OtherStates}
        \cup {summary_payload_of(m, 3, <<"d1", "d2">>) : m \in OtherStates}

InitCollector ==
    /\ metrics \in {MetricsAggregatorInit(n) : n \in TotalDevicesInputs}
    /\ now = 0
    /\ stop_event = FALSE
    /\ last_call = NoCall
    /\ summary_pc = "off"
    /\ snap = None
    /\ summary_result = None
    /\ SimIdle
    /\ TelIdle
    /\ StartIdle
    /\ SinksIdle
    /\ call_args = Some([order |-> <<"d1", "d2">>, ops |-> MaxOpsCollector])
    /\ call_result = None
    /\ OrchIdle
    /\ CoreIdle
    /\ snapshots = <<>>
    /\ devices_by_shard = <<>>

\* POST /api/shard: collector.ingest(shard_id, snapshot, devices)
PostShard(shard_id, payload) ==
    LET c == ingest([snapshots |-> snapshots, devices_by_shard |-> devices_by_shard],
                    shard_id, payload.snapshot, payload.devices)
    IN /\ snapshots' = c.snapshots
       /\ devices_by_shard' = c.devices_by_shard

\* periodic_reporter of this shard: snapshot(), device_breakdown(None) and
\* aggregator_client.send, which posts them under the shard's id.
SendToAggregator ==
    /\ PostShard(OwnShard, payload_of(metrics, now, call_args[1].order))
    /\ metrics' = ensure_sorted_latencies(metrics)
    /\ UNCHANGED <<now, stop_event, apiVars, simVars, telVars, startVars, sinkVars,
                   call_args, call_result, orchVars, coreVars>>

\* The reporter of the other shard posts.
OtherShardSends(payload) ==
    /\ PostShard(OtherShard, payload)
    /\ UNCHANGED <<metrics, now, stop_event, apiVars, simVars, telVars, startVars,
                   sinkVars, call_args, call_result, orchVars, coreVars>>

NextCollector ==
    \/ \E d \in Devices : CallConnected(d)
    \/ \E d \in Devices, r \in {Some("network")} : CallDisconnected(d, r, FALSE)
    \/ \E d \in Devices, l \in Latencies, b \in PayloadSizes : CallPublishSuccess(d, l, b)
    \/ \E d \in Devices, r \in {None} : CallPublishFailure(d, r)
    \/ SendToAggregator
    \/ \E payload \in OtherPayloads : OtherShardSends(payload)

SpecCollector == InitCollector /\ [][NextCollector]_vars

\* ------------------------------------------------------------ claims, Spec
\* A call that counts as a failure event: a publish failure, a connection
\* failure or a disconnect that is not graceful.
IsFailureCall(c) ==
    \/ c.op \in {"publish_failure", "connection_failure"}
    \/ c.op = "disconnected" /\ ~c.graceful

\* C1: collapsed_at and collapse_reason are fixed by the first failure event.
\* In every step: once collapsed_at is set neither field changes; while it is
\* unset, a failure call sets collapsed_at to the time of the call and
\* collapse_reason to the call's reason (some non-empty default when the
\* reason is None or empty), and any other step (connect, publish success,
\* graceful disconnect, cancellation) leaves both unset.
C1_CollapseFixedByFirstFailure ==
    /\ metrics.collapsed_at = None /\ metrics.collapse_reason = None
    /\ [][ LET called == now' /= now
               failure == called /\ IsFailureCall(last_call')
           IN /\ metrics.collapsed_at /= None =>
                    /\ metrics'.collapsed_at = metrics.collapsed_at
                    /\ metrics'.collapse_reason = metrics.collapse_reason
              /\ (metrics.collapsed_at = None /\ failure) =>
                    /\ metrics'.collapsed_at = Some(now')
                    /\ metrics'.collapse_reason /= None
                    /\ metrics'.collapse_reason[1] /= ""
                    /\ Truthy(last_call'.reason) =>
                           metrics'.collapse_reason = last_call'.reason
              /\ (metrics.collapsed_at = None /\ ~failure) =>
                    /\ metrics'.collapsed_at = None
                    /\ metrics'.collapse_reason = None
         ]_vars

\* C1 witness: after the first failure a later failure call with another
\* reason has been made, and the fields still hold the first one.
C1_Witness ==
    /\ metrics.collapsed_at /= None
    /\ metrics.collapsed_at[1] < now
    /\ IsFailureCall(last_call)
    /\ last_call.reason = Some("network")
    /\ metrics.collapse_reason /= Some("network")

PeakInvariant ==
    /\ metrics.active_devices \subseteq metrics.seen_devices
    /\ Cardinality(metrics.active_devices) <= metrics.peak_connected
    /\ metrics.peak_connected
         <= Max(metrics.total_devices, Cardinality(metrics.seen_devices))

\* C2: after any sequence of record operations active_devices is a subset of
\* seen_devices and |active_devices| <= peak_connected <=
\* max(total_devices, |seen_devices|); peak_connected never decreases.
C2_ActiveSeenPeak ==
    /\ PeakInvariant
    /\ [][PeakInvariant' /\ metrics'.peak_connected >= metrics.peak_connected]_vars

\* C2 witness: both devices were connected at once, all have disconnected,
\* and the declared fleet size is below the number of devices seen.
C2_Witness ==
    /\ metrics.peak_connected = Cardinality(Devices)
    /\ metrics.active_devices = {}
    /\ metrics.total_devices < Cardinality(metrics.seen_devices)

\* C3 (as claimed): a step that empties the active-devices set while
\* cancellation has not been requested leaves collapsed_at set, graceful
\* disconnect or not.
C3_EmptyActiveSetsCollapse ==
    [][ ( /\ metrics.active_devices /= {}
          /\ metrics'.active_devices = {}
          /\ ~stop_event )
        => metrics'.collapsed_at /= None ]_vars

\* C4 (as claimed): every summary() result is the summary of one aggregator
\* state: its bytes_sent is the byte total behind its data_volume_mb, and its
\* disconnect_causes go with its collapse fields (in any one state a recorded
\* cause means the collapse has been marked).
C4_SummaryIsOneState ==
    summary_result /= None =>
        LET r == summary_result[1]
        IN /\ r.bytes_sent = r.data_volume_mb[1]
           /\ (DOMAIN r.disconnect_causes /= {} => r.collapse_reason /= None)


\* ------------------------------------------------------ claims, SpecWorker
\* The worker holds an MQTT session (between __aenter__ and the finally block).
InSession(w) == pc[w] \in {"publishing", "waiting", "closing"}

\* C8: a connect or publish error is never fatal to a DeviceWorker. run
\* returns only once cancellation has been requested; an attempt that ends
\* with an error while cancellation is not requested leaves the device
\* recorded as failed, its session closed, and the worker in the backoff
\* sleep, from which it goes back to connecting; and run_simulation finds a
\* finished task before cancellation was requested only if a task was
\* cancelled from outside, never because of a device error.
C8_ErrorsNeverFatal ==
    [][/\ \A w \in Devices :
            /\ (pc[w] /= "done" /\ pc'[w] = "done") => stop_event
            /\ ( /\ pc[w] \in {"connecting", "closing"}
                 /\ pc'[w] \notin {"connecting", "closing", "cancelled"}
                 /\ disconnect_reason'[w] \notin GracefulReasons
                 /\ ~stop_event )
               => /\ pc'[w] = "backoff"
                  /\ w \in metrics'.failed_devices
                  /\ w \notin metrics'.active_devices
            /\ (pc[w] = "backoff" /\ pc'[w] /= "backoff")
               => pc'[w] \in {"loop_top", "cancelled"}
       /\ (stop_cause = "none" /\ stop_cause' = "task_finished")
          => \E w \in Devices : pc[w] = "cancelled"
      ]_vars

\* A worker whose publish failed is connected again, with no cancellation.
C8_Witness ==
    /\ ~stop_event
    /\ GetOr0(metrics.disconnect_causes, "publish:MqttError") > 0
    /\ \E w \in Devices :
          /\ w \in metrics.failed_devices
          /\ w \in metrics.active_devices
          /\ pc[w] = "publishing"

\* C9: the sleep after the k-th consecutive failed attempt since the last
\* successful connect is min(backoff_base * 2^k, backoff_max), the stored
\* backoff stays within [backoff_base, backoff_max], and a successful connect
\* puts it back to backoff_base.
C9_BackoffSchedule ==
    \A w \in Devices :
        /\ pc[w] = "backoff"
           => sleep_for[w] = Min(worker_backoff_base * 2^fail_streak[w], worker_backoff_max)
        /\ pc[w] /= "idle"
           => backoff[w] >= worker_backoff_base /\ backoff[w] <= worker_backoff_max
        /\ InSession(w) => backoff[w] = worker_backoff_base /\ fail_streak[w] = 0

\* The second failure in a row sleeps for the cap, less than the doubled base.
C9_Witness ==
    \E w \in Devices :
        /\ pc[w] = "backoff"
        /\ fail_streak[w] = 1
        /\ sleep_for[w] = worker_backoff_max
        /\ worker_backoff_max < 2 * worker_backoff_base
        /\ worker_backoff_base < worker_backoff_max

\* C10: each record_client_connected of a worker is matched by exactly one
\* record_client_disconnected before the worker's next attempt or its exit:
\* a device has one unmatched record, and is in active_devices, exactly while
\* its worker holds a session; once run_simulation has gathered its tasks,
\* active_devices is empty.
C10_ConnectDisconnectPaired ==
    /\ \A w \in Devices :
          /\ open_sessions[w] = IF InSession(w) THEN 1 ELSE 0
          /\ (w \in metrics.active_devices) <=> InSession(w)
    /\ main_pc \in {"shutdown", "done"} => metrics.active_devices = {}

\* The run is over; both devices had a session, one ended by task
\* cancellation and one by a failure.
C10_Witness ==
    /\ main_pc = "done"
    /\ metrics.seen_devices = Devices
    /\ \E w \in Devices : pc[w] = "cancelled" /\ disconnect_reason[w] = "cancelled"
    /\ \E w \in Devices : pc[w] = "done" /\ w \in metrics.failed_devices


\* --------------------------------------------------- claims, SpecTelemetry
\* The SimLoop threads that have called barrier.wait().
Arrived == {w \in Devices : barrier_index[w] /= None}

\* C5: StartCoordinator.release() is not called before all N workers are at
\* the barrier and is not called twice; no worker publishes before the
\* release; every worker's StartCoordinator.wait() returns the start time the
\* release computed.
C5_ReleaseAfterBarrierOnce ==
    /\ release_calls <= 1
    /\ release_calls = 1 => Arrived = Devices
    /\ \A w \in Devices :
          /\ tick_index[w] > 0 => coord_event /\ release_calls = 1
          /\ start_time[w] /= None
             => release_calls = 1 /\ start_time[w] = Some(coord_start_time)

\* Both workers have taken the released start time and one has published.
C5_Witness ==
    /\ release_calls = 1
    /\ \A w \in Devices : start_time[w] = Some(coord_start_time)
    /\ coord_start_time > LeadTime
    /\ \E w \in Devices : tick_index[w] > 0

\* C6: the k-th publish of a SimLoop (k = 0, 1, ...) is scheduled at
\* S + k*I, S the shared start time and I the publish interval.
C6_TickSchedule ==
    \A w \in Devices :
        loop_pc[w] \in {"loop_top", "sleeping"}
        => next_tick[w] = start_time[w][1] + tick_index[w] * publish_interval

\* C7: once cancellation is requested while a SimLoop sleeps until its next
\* tick, by StopSignal.trip() or by stop.flag being created before the tick
\* is due, the worker publishes nothing more.
C7_NoPublishAfterCancelDuringSleep ==
    [][\A w \in Devices :
          ( /\ loop_pc[w] = "sleeping"
            /\ \/ stop_signal_event
               \/ flag_file /= None /\ flag_file[1] < next_tick[w] )
          => tick_index'[w] = tick_index[w]]_vars


\* ------------------------------------------------- claims, the ramp loop
\* The workers run_simulation has started.
Started == {w \in Devices : pc[w] /= "idle"}

\* C11: the ramp loop takes the stages in declared order; a stage reached
\* with cancellation not fired leaves exactly r_i workers started, the first
\* r_i selected devices (a single stage N starts them all); a stage boundary
\* or a dwell that observes cancellation ends the loop, and nothing is
\* started outside the loop.
C11_RampStages ==
    /\ Started = Slice(0, launched)
    /\ [][LET seq == config[1].ramp_sequence
          IN /\ (main_pc = "ramp" /\ stage <= Len(seq) /\ ~stop_event)
                => /\ launched' = seq[stage]
                   /\ Started' = Slice(0, seq[stage])
                   /\ Started \subseteq Started'
             /\ (main_pc = "ramp" /\ stop_event)
                => Started' = Started /\ main_pc' = "wait"
             /\ (main_pc = "dwell" /\ stop_event /\ main_pc' /= "dwell")
                => Started' = Started /\ launched' = launched
             /\ main_pc /= "ramp" => Started' = Started /\ launched' = launched
             /\ stage' /= stage => stage' = stage + 1 /\ main_pc \in {"ramp", "dwell"}
             /\ (main_pc \notin {"ramp", "dwell"}) => main_pc' \notin {"ramp", "dwell"}
         ]_vars

\* Cancellation fired during the dwell after the first stage: one worker of
\* two was started and the loop is over.
C11_Witness ==
    /\ config[1].ramp_sequence = <<1, 2>>
    /\ config[1].ramp_wait > 0
    /\ stop_event
    /\ main_pc \in {"gather", "shutdown", "done"}
    /\ launched = 1
    /\ Started = {DeviceList[1]}


\* ---------------------------------------------------- claims, SpecStartup
\* The ramp of the run has been parsed, or has failed to parse, from --ramp.
RampParsed ==
    /\ validate(args[1]) = None
    /\ args[1].ramp_percentages = <<>>
    /\ startup_pc \notin {"validate", "prepare"}

\* C12: parse_ramp(values, N) raises or returns a non-decreasing sequence
\* with every entry in 1..N that ends with N; it raises for a non-positive
\* entry, a decreasing adjacent pair or a last entry above N, and returns [N]
\* when no values are given.
C12_ParseRamp ==
    RampParsed =>
        LET v == args[1].ramp
            n == args[1].selected
            must_raise == /\ v /= <<>>
                          /\ \/ \E i \in 1..Len(v) : v[i] <= 0
                             \/ \E i \in 1..(Len(v) - 1) : v[i + 1] < v[i]
                             \/ v[Len(v)] > n
        IN /\ ramp_sequence = None <=> exit_status = Some(1)
           /\ ramp_sequence /= None
              => LET r == ramp_sequence[1]
                 IN /\ r /= <<>>
                    /\ \A i \in 1..Len(r) : r[i] \in 1..n
                    /\ \A i \in 1..(Len(r) - 1) : r[i] <= r[i + 1]
                    /\ r[Len(r)] = n
           /\ must_raise => ramp_sequence = None
           /\ v = <<>> => ramp_sequence = Some(<<n>>)

\* The ramp 1 2 on three devices was parsed and the fleet size appended.
C12_Witness ==
    /\ RampParsed
    /\ args[1].ramp = <<1, 2>>
    /\ args[1].selected = 3
    /\ ramp_sequence = Some(<<1, 2, 3>>)

\* The stage counts the percentages as given stand for: ceil(N*p/100) clamped
\* to [1, N] and made non-decreasing, p in hundredths.
RECURSIVE claimed_counts(_, _, _)
claimed_counts(values, n, acc) ==
    IF values = <<>> THEN acc
    ELSE IF Head(values).kind /= "num" THEN claimed_counts(Tail(values), n, acc)
    ELSE LET c1 == Min(n, Max(1, (n * Head(values).h + 9999) \div 10000))
             c2 == IF acc /= <<>> /\ c1 < acc[Len(acc)] THEN acc[Len(acc)] ELSE c1
         IN claimed_counts(Tail(values), n, Append(acc, c2))

\* C13: parse_ramp_percentages(P, N) turns every accepted percentage p into
\* ceil(N*p/100) clamped to [1, N], makes the sequence non-decreasing and
\* ends it with N.
C13_PercentagesToCounts ==
    ( /\ validate(args[1]) = None
      /\ args[1].ramp_percentages /= <<>>
      /\ ramp_sequence /= None )
    => LET n == args[1].selected
           c == claimed_counts(args[1].ramp_percentages, n, <<>>)
       IN ramp_sequence[1] =
             IF c = <<>> THEN <<n>>
             ELSE IF c[Len(c)] < n THEN Append(c, n) ELSE c

\* What the checks of the configuration are to reject.
InvalidConfiguration(a) ==
    \/ a.ramp /= <<>> /\ a.ramp_percentages /= <<>>
    \/ a.interval <= 0
    \/ a.ramp_wait < 0
    \/ a.duration < 0
    \/ a.count /= None /\ a.count[1] <= 0
    \/ ~a.disable_dashboard /\ a.metrics_refresh <= 0

\* C14: an invalid configuration makes run_simulation exit with status 1
\* before the sinks are started and before any worker is created (workers
\* make the MQTT connections).
C14_InvalidConfigurationRejected ==
    (InvalidConfiguration(args[1]) /\ startup_pc /= "validate")
    => /\ startup_pc = "exited"
       /\ exit_status = Some(1)
       /\ ramp_sequence = None
       /\ ~sinks_started
       /\ ~workers_created

\* A run given both --ramp and --ramp-percentages, and nothing else wrong,
\* has exited with status 1.
C14_Witness ==
    /\ args[1].ramp /= <<>>
    /\ args[1].ramp_percentages /= <<>>
    /\ validate_without_ramp_check(args[1]) = None
    /\ startup_pc = "exited"
    /\ exit_status = Some(1)
    /\ ~sinks_started


\* ------------------------------------------------------ claims, SpecWorker
\* The aggregator has recorded no failure.
FailureFree ==
    /\ metrics.failure_count = 0
    /\ metrics.disconnect_causes = EmptyMap
    /\ metrics.failed_devices = {}
    /\ metrics.collapsed_at = None

\* A step in which a connect, a publish or the closing of a connection fails,
\* or in which the handler of such a failure runs.
FaultStep ==
    \E w \in Devices :
        \/ ConnectFail(w, "mqtt_error:MqttError")
        \/ PublishMqttError(w)
        \/ PublishOtherError(w)
        \/ CloseError(w)
        \/ pending_exc[w] = "error" /\ Close(w)

\* C18: while no connect or publish error occurs the aggregator records no
\* failure, however the workers end: failure_count stays 0, disconnect_causes
\* and failed_devices stay empty and collapsed_at stays unset; a disconnect
\* whose reason is graceful, loop_exit, stopped or cancelled is not counted.
C18_CancellationIsNoFailure ==
    /\ FailureFree
    /\ [][(FailureFree /\ ~FaultStep) => FailureFree']_vars

\* A run ended by cancellation in which every worker connected and published,
\* one was stopped and one was cancelled, and nothing failed.
C18_Witness ==
    /\ main_pc = "done"
    /\ stop_event
    /\ \A w \in Devices : TaskDone(w) /\ message_sequence[w] > 0
    /\ \E w \in Devices : disconnect_reason[w] = "stopped"
    /\ \E w \in Devices : disconnect_reason[w] = "cancelled"
    /\ metrics.seen_devices = Devices
    /\ metrics.active_devices = {}
    /\ FailureFree

\* The reason tags of classify_failure.
Taxonomy ==
    {"ok", "auth", "protocol", "client-id", "broker", "network", "network-timeout", "tls",
     "payload", "client-memory", "client-backpressure", "client", "client-request",
     "internal-error", "unknown"}

\* C20 (as claimed): every key of disconnect_causes is a tag of the taxonomy.
C20_CausesInTaxonomy == DOMAIN metrics.disconnect_causes \subseteq Taxonomy

\* --------------------------------------------------------- claims, SpecRun
\* The snapshot rows of the CSV file.
CsvRows == IF csv_file = <<>> THEN <<>> ELSE Tail(csv_file)

\* C15 (as claimed): the reporter takes its final snapshot after every worker
\* has ended, so the last row of the CSV file of a finished run reports zero
\* active clients and the final counters.
C15_FinalRowAfterWorkers ==
    main_pc = "done" =>
        /\ CsvRows /= <<>>
        /\ CsvRows[Len(CsvRows)] = RowLine(snapshot(metrics, now))
        /\ CsvRows[Len(CsvRows)].active_clients = 0

\* The rows logged so far.
RowsLogged == reporter_ticks + (IF reporter_pc = "done" THEN 1 ELSE 0)

CsvShape ==
    /\ csv_file /= <<>> => csv_file[1] = HeaderLine
    /\ \A i \in 2..Len(csv_file) : csv_file[i].kind = "row"
    /\ Len(csv_logged) = RowsLogged
    /\ Len(CsvRows) <= RowsLogged
    /\ \A i \in 1..Len(CsvRows) : CsvRows[i] = RowLine(csv_logged[i])
    /\ main_pc = "done" => /\ csv_writer_pc = "done"
                           /\ reporter_pc = "done"
                           /\ Len(csv_file) = 1 + reporter_ticks + 1

\* C17: the CSV file starts with the header, which appears only there; it has
\* one row for each tick of the reporter and then one final row, which the
\* reporter logs once cancellation is raised and after which it logs nothing.
C17_CsvHeaderTicksFinalRow ==
    /\ CsvShape
    /\ [][ /\ CsvShape'
           /\ reporter_pc' /= reporter_pc
              => /\ stop_event
                 /\ reporter_pc' = "done"
                 /\ csv_logged' = Append(csv_logged, snapshot(metrics, now))
                 /\ reporter_ticks' = reporter_ticks
           /\ reporter_pc = "done" => csv_logged' = csv_logged
           /\ reporter_ticks' /= reporter_ticks
              => /\ reporter_pc = "waiting"
                 /\ reporter_ticks' = reporter_ticks + 1
                 /\ Len(csv_logged') = Len(csv_logged) + 1
         ]_vars

\* A finished run whose CSV file has the header, one tick row and the final
\* row.
C17_Witness ==
    /\ main_pc = "done"
    /\ reporter_ticks = 1
    /\ Len(csv_file) = 3
    /\ csv_file[1] = HeaderLine
    /\ csv_file[3] = RowLine(csv_logged[2])
    /\ csv_queue = <<>>

\* -------------------------------------------------------- claims, SpecSinks
\* The records of a queue that its writer will write: those before None.
RECURSIVE BeforeNone(_)
BeforeNone(q) ==
    IF q = <<>> \/ Head(q) = None THEN <<>>
    ELSE <<Head(q)[1]>> \o BeforeNone(Tail(q))

RowLines(records) == [i \in 1..Len(records) |-> RowLine(records[i])]

EventsOf(w) == SelectSeq(ev_file, LAMBDA e : e.device = w)

\* No connection and no publish has failed.
NoFault ==
    /\ metrics.failure_count = 0
    /\ \A i \in 1..Len(ev_logged) : ev_logged[i].event \in {"connected", "publish", "disconnected"}

\* C19 (as claimed): after a run without faults that the duration timer
\* ended, the events of a device that connected are one connected event, then
\* publish-success events only, then one disconnected event with reason
\* graceful.
C19_DeviceEventLog ==
    (main_pc = "done" /\ stop_cause = "stop_event" /\ NoFault) =>
        \A w \in metrics.seen_devices :
            LET e == EventsOf(w)
                n == Len(e)
            IN /\ n >= 2
               /\ e[1] = Event(w, "connected", "")
               /\ \A i \in 2..(n - 1) : e[i] = Event(w, "publish", "success")
               /\ e[n] = Event(w, "disconnected", "graceful")


\* ----------------------------------------------------- claims, SpecClassify
\* C21: classify_failure returns a tag of the taxonomy for every input; an
\* exception decides before rc (MemoryError client-memory, TimeoutError
\* network-timeout, another OSError network, anything else internal-error);
\* with neither it returns unknown; in stage connect rc 0 gives ok and rc 1..5
\* give protocol, client-id, broker, auth, auth; in stage disconnect rc 0
\* gives client-request.
C21_ClassifyFailure ==
    call_result /= None =>
        LET a == call_args[1]
            reason == call_result[1]
        IN /\ reason \in Taxonomy
           /\ a.exc /= None =>
                reason = CASE a.exc[1] = "MemoryError" -> "client-memory"
                           [] a.exc[1] = "TimeoutError" -> "network-timeout"
                           [] a.exc[1] \in {"OSError", "ConnectionRefusedError"} -> "network"
                           [] OTHER -> "internal-error"
           /\ (a.exc = None /\ a.rc = None) => reason = "unknown"
           /\ (a.exc = None /\ a.rc /= None /\ a.stage = "connect")
              => /\ a.rc[1] = 0 => reason = "ok"
                 /\ a.rc[1] \in 1..5
                    => reason = <<"protocol", "client-id", "broker", "auth", "auth">>[a.rc[1]]
           /\ (a.exc = None /\ a.rc = Some(0) /\ a.stage = "disconnect")
              => reason = "client-request"

\* A refused connection (CONNACK 5) was classified as auth, where the error
\* code of the same value means a refused TCP connection.
C21_Witness ==
    /\ call_args = Some([stage |-> "connect", rc |-> Some(5), exc |-> None])
    /\ call_result = Some("auth")


\* ------------------------------------------------------ claims, SpecSummary
\* The percentile of the claim: with a the ascending samples, n their number
\* and r = (n - 1) * p / 100, the value a[floor r] + (a[ceil r] - a[floor r]) *
\* (r - floor r), a counted from 0.
InterpolatedPercentile(p, a) ==
    LET r100 == (Len(a) - 1) * p
        fl == r100 \div 100
        cl == IF r100 % 100 = 0 THEN fl ELSE fl + 1
    IN <<100 * a[fl + 1] + (a[cl + 1] - a[fl + 1]) * (r100 - 100 * fl), 100>>

PercentileFields(r) ==
    [p \in {50, 95, 99} |-> IF p = 50 THEN r.p50_latency_ms
                            ELSE IF p = 95 THEN r.p95_latency_ms
                            ELSE r.p99_latency_ms]

\* The sorted cache holds the recorded latencies whenever it is marked valid.
CacheFresh ==
    (metrics.latencies /= <<>> /\ metrics.latencies_sorted)
    => metrics.latencies_cache = sorted(metrics.latencies)

\* C27: the percentiles of each snapshot are those of the latencies recorded
\* before it, in ascending order, by linear interpolation at rank
\* (n - 1) * p / 100; they are absent when there is no sample and equal to the
\* sample when there is one; the sorted cache is never stale.
C27_PercentilesOfRecordedLatencies ==
    /\ CacheFresh
    /\ [][ /\ CacheFresh'
           /\ (summary_pc = "idle" /\ summary_pc' = "overrides")
              => LET a == sorted(metrics.latencies)
                     f == PercentileFields(snap'[1])
                 IN \A p \in {50, 95, 99} :
                       /\ a = <<>> => f[p] = None
                       /\ a /= <<>> => /\ f[p] /= None
                                       /\ RatEq(f[p][1], InterpolatedPercentile(p, a))
                       /\ Len(a) = 1 => f[p] = Some(<<a[1], 1>>)
         ]_vars

\* A snapshot taken after the latencies 3 and 1 were recorded in this order,
\* with a snapshot between them: its median is 2.
C27_Witness ==
    /\ snap /= None
    /\ metrics.latencies = <<3, 1>>
    /\ metrics.latencies_cache = <<1, 3>>
    /\ RatEq(snap[1].p50_latency_ms[1], <<2, 1>>)
    /\ summary_result /= None
    /\ summary_result[1].latencies_sorted = <<3>>


\* ----------------------------------------------------- claims, SpecSnapshot
\* C28: in a snapshot with percentiles, p50 <= p95 <= p99; with exactly one
\* sample recorded all three are that sample.
C28_PercentileOrder ==
    call_result /= None =>
        LET r == call_result[1]
            x == call_args[1].samples
        IN /\ x = <<>> <=> r.p50_latency_ms = None
           /\ x = <<>> <=> r.p95_latency_ms = None
           /\ x = <<>> <=> r.p99_latency_ms = None
           /\ x /= <<>> => /\ RatLeq(r.p50_latency_ms[1], r.p95_latency_ms[1])
                           /\ RatLeq(r.p95_latency_ms[1], r.p99_latency_ms[1])
           /\ Len(x) = 1 => /\ r.p50_latency_ms = Some(<<x[1], 1>>)
                            /\ r.p95_latency_ms = Some(<<x[1], 1>>)
                            /\ r.p99_latency_ms = Some(<<x[1], 1>>)

\* A snapshot of four samples recorded out of order whose three percentiles
\* differ.
C28_Witness ==
    /\ call_result /= None
    /\ call_args[1].samples = <<5, 1, 2, 1>>
    /\ ~RatLeq(call_result[1].p95_latency_ms[1], call_result[1].p50_latency_ms[1])
    /\ ~RatLeq(call_result[1].p99_latency_ms[1], call_result[1].p95_latency_ms[1])


\* -------------------------------------------------- claims, SpecOrchestrate
CeilDiv(n, c) == (n + c - 1) \div c

\* orchestrate ran or runs the fleet in this process.
SingleProcess ==
    \/ orch_pc = "run_worker"
    \/ orch_pc = "done" /\ children = <<>>

\* Every shard process was started.
AllSpawned ==
    \/ orch_pc \in {"wait", "system_exit"}
    \/ orch_pc = "done" /\ children /= <<>>

\* The device ids of the slice of child i.
ShardSlice(i) == children[i].start .. (children[i].start + children[i].count - 1)

\* The fleet is single-process iff n <= cap or the platform is not flagged;
\* otherwise ceil(n / cap) shards of 1 .. cap devices, contiguous, disjoint,
\* covering n devices.
ShardingFor(cap) ==
    LET a == orch_args[1]
        n == a.total_devices
    IN /\ orch_pc \notin {"start", "interrupted"} =>
              (SingleProcess <=> (n <= cap \/ ~a.win))
       /\ AllSpawned =>
              /\ \A i \in DOMAIN children : children[i].count \in 1 .. cap
              /\ Len(children) = CeilDiv(n, cap)
              /\ Len(processes) = Len(children)
              /\ children[1].start = a.start_id
              /\ \A i \in 1 .. Len(children) - 1 :
                     children[i + 1].start = children[i].start + children[i].count
              /\ \A i, j \in DOMAIN children : i /= j => ShardSlice(i) \cap ShardSlice(j) = {}
              /\ UNION {ShardSlice(i) : i \in DOMAIN children}
                     = a.start_id .. (a.start_id + n - 1)

\* C25 as stated: the topology is decided with the cap C as given.
C25_ShardingByGivenCap == ShardingFor(orch_args[1].max_clients_per_process)

\* C25, amended: the topology is decided with the cap max(1, C): single-process
\* iff N <= max(1, C) or the platform is not flagged for splitting; otherwise
\* ceil(N / max(1, C)) shards of 1 .. max(1, C) devices each, whose slices are
\* contiguous, pairwise disjoint and cover exactly N devices.
C25_ShardingByEffectiveCap == ShardingFor(max_per_process(orch_args[1]))

\* Three devices from id 1 under a cap of two: shards (1, 2) and (3, 1).
C25_Witness ==
    /\ orch_pc = "wait"
    /\ orch_args[1].total_devices = 3
    /\ orch_args[1].max_clients_per_process = 2
    /\ Len(processes) = 2
    /\ children[1].start = 1 /\ children[1].count = 2
    /\ children[2].start = 3 /\ children[2].count = 1

\* ---------------------------------------------- claims, SpecOrchestrateFair
\* C26: once orchestrate was interrupted, every shard process it started
\* ends: none is left running for ever.
C26_ShardsEndAfterInterrupt ==
    (orch_pc = "interrupted") ~>
        (\A i \in DOMAIN children : children[i].state = "exited")


\* ---------------------------------------------------- claims, SpecBreakdown
\* Limits passed to device_breakdown.
MaxLimit == 2

IsPrefix(a, b) == Len(a) <= Len(b) /\ a = SubSeq(b, 1, Len(a))

NonIncreasingByMessages(s) ==
    \A i \in 1 .. Len(s) - 1 : s[i].messages >= s[i + 1].messages

\* C29: in any state of the aggregator, device_breakdown(k) is a prefix of
\* device_breakdown(k + 1) for every k >= 0, the entries are in non-increasing
\* order of messages, and device_breakdown(None) lists each device that has a
\* message, a failed message or a failure exactly once.
C29_DeviceBreakdownPrefix ==
    LET order == call_args[1].order
    IN  LET all == device_breakdown(metrics, None, order)
            recorded == (DOMAIN metrics.messages_per_device)
                            \cup (DOMAIN metrics.failed_messages_per_device)
                            \cup metrics.failed_devices
        IN /\ \A k \in 0 .. MaxLimit :
                  /\ IsPrefix(device_breakdown(metrics, Some(k), order),
                              device_breakdown(metrics, Some(k + 1), order))
                  /\ IsPrefix(device_breakdown(metrics, Some(k), order), all)
                  /\ Len(device_breakdown(metrics, Some(k), order)) = Min(k, Len(all))
                  /\ NonIncreasingByMessages(device_breakdown(metrics, Some(k), order))
           /\ NonIncreasingByMessages(all)
           /\ {all[i].device : i \in DOMAIN all} = recorded
           /\ Len(all) = Cardinality(recorded)

\* d2 has more messages than d1, which is iterated first: the breakdown of
\* limit 1 is d2 alone and the full one is d2, d1.
C29_Witness ==
    /\ call_args[1].order = <<"d1", "d2">>
    /\ GetOr0(metrics.messages_per_device, "d1") = 1
    /\ GetOr0(metrics.messages_per_device, "d2") = 2
    /\ Len(device_breakdown(metrics, Some(1), call_args[1].order)) = 1
    /\ device_breakdown(metrics, Some(1), call_args[1].order)[1].device = "d2"
    /\ device_breakdown(metrics, None, call_args[1].order)[2].device = "d1"


\* ---------------------------------------------------- claims, SpecCollector
\* The latest snapshot of each shard, by position in self._snapshots.
ShardSnapshot(i) == snapshots[i].value

RECURSIVE RatSumOver(_, _)
RatSumOver(f, S) ==
    IF S = {} THEN <<0, 1>>
    ELSE LET x == CHOOSE y \in S : TRUE IN RatSum(f[x], RatSumOver(f, S \ {x}))

\* The sum over the shards of a count of their snapshots (a snapshot without
\* the key counts 0).
TotalOf(field) ==
    SumOver([i \in DOMAIN snapshots |->
                IF field \in DOMAIN ShardSnapshot(i) THEN ShardSnapshot(i)[field] ELSE 0],
            DOMAIN snapshots)

\* The same for a field kept as a fraction.
RatTotalOf(field) == RatSumOver([i \in DOMAIN snapshots |-> ShardSnapshot(i)[field]],
                                DOMAIN snapshots)

\* The greatest value of a fraction field (0 without shards).
IsLatest(value, field) ==
    IF snapshots = <<>> THEN value = <<0, 1>>
    ELSE /\ \E i \in DOMAIN snapshots : value = ShardSnapshot(i)[field]
         /\ \A i \in DOMAIN snapshots : RatLeq(ShardSnapshot(i)[field], value)

\* The mean of a latency field over the shards that report it, each weighted
\* by its successes; None when the weights add up to 0.
IsWeightedMean(value, field) ==
    LET with == {i \in DOMAIN snapshots : ShardSnapshot(i)[field] /= None}
        weight == SumOver([i \in with |-> ShardSnapshot(i).successful_publishes], with)
        total == RatSumOver([i \in with |->
                                RatNorm(RatScale(ShardSnapshot(i)[field][1],
                                                 ShardSnapshot(i).successful_publishes))],
                            with)
    IN IF weight = 0 THEN value = None
       ELSE value /= None /\ RatEq(RatScale(value[1], weight), total)

\* C22: summary() of the collector is the merge of the latest snapshot of each
\* shard: counts are summed, disconnect_causes are summed cause by cause,
\* timestamp, uptime and elapsed are the greatest, the latencies are the
\* successes-weighted means, collapse_time_seconds is the least over the
\* collapsed shards (None if none) and collapse_reason joins the sorted union.
C22_SummaryIsMergeOfShards ==
    LET g == collector_summary(snapshots)
        shards == DOMAIN snapshots
        collapsed == {i \in shards : ShardSnapshot(i).collapse_time_seconds /= None}
        reasons == {ShardSnapshot(i).collapse_reason[1] :
                       i \in {j \in shards : Truthy(ShardSnapshot(j).collapse_reason)}}
        causes == UNION {DOMAIN ShardSnapshot(i).disconnect_causes : i \in shards}
    IN /\ g.successful_publishes = TotalOf("successful_publishes")
       /\ g.failed_publishes = TotalOf("failed_publishes")
       /\ g.total_devices = TotalOf("total_devices")
       /\ g.active_clients = TotalOf("active_clients")
       /\ g.connected_devices = TotalOf("connected_devices")
       /\ g.failed_devices = TotalOf("failed_devices")
       /\ g.channels_in_use = TotalOf("channels_in_use")
       /\ g.bytes_sent = TotalOf("bytes_sent")
       /\ g.peak_connected_devices = TotalOf("peak_connected_devices")
       /\ g.data_volume_mb = RatTotalOf("data_volume_mb")
       /\ g.messages_per_second = RatTotalOf("messages_per_second")
       /\ g.bandwidth_mbps = RatTotalOf("bandwidth_mbps")
       /\ DOMAIN g.disconnect_causes = causes
       /\ \A c \in causes :
              g.disconnect_causes[c] =
                  SumOver([i \in shards |-> GetOr0(ShardSnapshot(i).disconnect_causes, c)],
                          shards)
       /\ IF shards = {} THEN g.timestamp = None
          ELSE /\ \E i \in shards : g.timestamp = Some(ShardSnapshot(i).timestamp)
               /\ \A i \in shards : ShardSnapshot(i).timestamp <= g.timestamp[1]
       /\ IsLatest(g.uptime_seconds, "uptime_seconds")
       /\ IsLatest(g.elapsed_seconds, "elapsed_seconds")
       /\ IsWeightedMean(g.avg_latency_ms, "avg_latency_ms")
       /\ IsWeightedMean(g.p50_latency_ms, "p50_latency_ms")
       /\ IsWeightedMean(g.p95_latency_ms, "p95_latency_ms")
       /\ IsWeightedMean(g.p99_latency_ms, "p99_latency_ms")
       /\ IF collapsed = {} THEN g.collapse_time_seconds = None
          ELSE /\ \E i \in collapsed :
                      g.collapse_time_seconds = ShardSnapshot(i).collapse_time_seconds
               /\ \A i \in collapsed :
                      g.collapse_time_seconds[1] <= ShardSnapshot(i).collapse_time_seconds[1]
       /\ IF reasons = {} THEN g.collapse_reason = None
          ELSE /\ g.collapse_reason /= None
               /\ {g.collapse_reason[1][k] : k \in DOMAIN g.collapse_reason[1]} = reasons
               /\ Len(g.collapse_reason[1]) = Cardinality(reasons)
               /\ \A k \in 1 .. Len(g.collapse_reason[1]) - 1 :
                      \E a, b \in DOMAIN SortedReasons :
                          /\ a < b
                          /\ SortedReasons[a] = g.collapse_reason[1][k]
                          /\ SortedReasons[b] = g.collapse_reason[1][k + 1]

\* Two shards: this one with one success of latency 1, the other collapsed
\* after successes of latencies 3 and 1 (mean 2).  The merged mean is 5/3.
C22_Witness ==
    /\ Len(snapshots) = 2
    /\ collector_summary(snapshots).bytes_sent = 4
    /\ collector_summary(snapshots).peak_connected_devices = 1
    /\ collector_summary(snapshots).successful_publishes = 3
    /\ collector_summary(snapshots).avg_latency_ms = Some(<<5, 3>>)
    /\ collector_summary(snapshots).collapse_reason = Some(<<"network">>)

\* The counters of a summary.
SameCounters(g, s) ==
    /\ g.successful_publishes = s.successful_publishes
    /\ g.failed_publishes = s.failed_publishes
    /\ g.bytes_sent = s.bytes_sent
    /\ g.peak_connected_devices = s.peak_connected_devices
    /\ g.total_devices = s.total_devices
    /\ g.active_clients = s.active_clients
    /\ g.disconnect_causes = s.disconnect_causes

\* C23: with one shard, the summary of the collector after the shard's report
\* has the counters of the shard's own summary() in the same state.
C23_SingleShardReadBack ==
    [][(SendToAggregator /\ dict_keys(snapshots') = {OwnShard}) =>
           SameCounters(collector_summary(snapshots'),
                        summary_overrides(snapshot(metrics, now), metrics))]_vars

\* The collector holds exactly the payload for the shard, what it held for
\* the other shards is as before, and a second ingest of the payload leaves
\* the collector as it is (summary() and device_breakdown() read nothing
\* else).
Replaced(shard_id, payload) ==
    LET held == dict_get(devices_by_shard', shard_id)
        again == ingest([snapshots |-> snapshots', devices_by_shard |-> devices_by_shard'],
                        shard_id, payload.snapshot, payload.devices)
    IN /\ dict_keys(snapshots') = dict_keys(snapshots) \cup {shard_id}
       /\ dict_keys(devices_by_shard') = dict_keys(devices_by_shard) \cup {shard_id}
       /\ Len(snapshots') = Cardinality(dict_keys(snapshots'))
       /\ Len(devices_by_shard') = Cardinality(dict_keys(devices_by_shard'))
       /\ dict_get(snapshots', shard_id) = payload.snapshot
       /\ [i \in DOMAIN held |-> held[i].value] = payload.devices
       /\ \A k \in dict_keys(snapshots) \ {shard_id} :
              /\ dict_get(snapshots', k) = dict_get(snapshots, k)
              /\ dict_get(devices_by_shard', k) = dict_get(devices_by_shard, k)
       /\ again.snapshots = snapshots'
       /\ again.devices_by_shard = devices_by_shard'

\* C24: ingest is keyed by the shard id: a payload replaces what the shard had
\* reported, leaves the other shards as they were, and is idempotent.
C24_IngestReplacesByShard ==
    [][/\ SendToAggregator =>
              Replaced(OwnShard, payload_of(metrics, now, call_args[1].order))
       /\ \A payload \in OtherPayloads :
              OtherShardSends(payload) => Replaced(OtherShard, payload)]_vars

\* Both shards have reported, this shard first, and the report held for it is
\* one it made after a publish: the other shard's report has not displaced it.
C24_Witness ==
    /\ Len(snapshots) = 2
    /\ snapshots[1].key = OwnShard
    /\ snapshots[1].value.timestamp = 1
    /\ snapshots[1].value.successful_publishes = 1
    /\ snapshots[2].value.successful_publishes = 2
    /\ Len(dict_get(devices_by_shard, OwnShard)) = 1


\* ----------------------------------------------- claims, SpecTelemetryFair
\* Every SimLoop has returned from StartCoordinator.wait() into its publish
\* loop and main has reached `while not stop_signal.is_set()`.
StartReleased ==
    /\ coord_event
    /\ \A w \in Devices : start_time[w] /= None
    /\ tel_main \in {"poll", "finally", "joining", "done"}

\* C30: once all the parties are at the barrier, in whatever order, the start
\* time is released: every worker returns from wait() and main reaches its
\* polling loop.
C30_StartReleasedAfterBarrier == BarrierOpen ~> StartReleased


\* A SimLoop returned from run() after a failed connect: it never called
\* barrier.wait().
SomeWorkerNeverArrives ==
    \E w \in Devices : loop_pc[w] = "exited" /\ barrier_index[w] = None

\* stop.flag exists or the stop signal's event is set.
CancellationRequested == flag_file /= None \/ stop_signal_event

\* C31: when a worker failed to connect and cancellation is requested, the
\* threads waiting at the barrier leave it and the run ends.
C31_BarrierWaitEndsOnCancellation ==
    (SomeWorkerNeverArrives /\ CancellationRequested) ~>
        (tel_main = "done" /\ \A w \in Devices : loop_pc[w] = "exited")

\* ------------------------------ the MetricsCollector of simcore, called
\* Calls made on the collector in one behaviour of SpecCore.
MaxOpsCore == 3

\* max(time.perf_counter() - self._start_ts, 1e-6), as a fraction
snapshot_elapsed(t) == IF t > 0 THEN <<t, 1>> ELSE <<1, 1000000>>

\* The device statuses of a snapshot: `sorted(self._devices.items())`.
status_list(m) ==
    LET names == SelectSeq(DeviceList, LAMBDA d : d \in DOMAIN m.devices)
    IN [i \in 1 .. Len(names) |->
           [name |-> names[i],
            status |-> m.devices[names[i]].status,
            last_stage |-> m.devices[names[i]].last_stage,
            failure_reason |-> m.devices[names[i]].failure_reason,
            disconnect_code |-> m.devices[names[i]].disconnect_code]]

\* MetricsCollector.snapshot, lines 329-355: the locals computed while the
\* lock is held, at time t.
snapshot_locked(m, t) ==
    LET success_packets == m.total_packets_sent - m.total_packets_failed
        base_devices == Max(m.device_count, 1)
        disconnected_set == m.registered_devices \ m.connected
    IN [ elapsed |-> snapshot_elapsed(t),
         success_packets |-> success_packets,
         avg_rate |-> RatDiv(RatDiv(<<success_packets, 1>>, snapshot_elapsed(t)),
                             <<base_devices, 1>>),
         total_mb |-> <<m.total_bytes, 1024 * 1024>>,
         connected |-> Cardinality(m.connected),
         disconnected |-> Cardinality(disconnected_set),
         failed |-> Cardinality(m.failed_devices),
         failed_or_disconnected |-> Cardinality(disconnected_set \cup m.failed_devices),
         bandwidth_mbps |-> RatDiv(RatDiv(<<m.total_bytes * 8, 1>>, snapshot_elapsed(t)),
                                   <<1000000, 1>>),
         devices |-> status_list(m),
         failure_breakdown |-> m.failure_breakdown,
         collapse_time |-> m.collapse_time ]

\* MetricsCollector.snapshot, lines 356-373: the MetricsSnapshot built after
\* the lock is released; sent and failed are the values the two reads of
\* self._total_packets_sent and self._total_packets_failed give.
MetricsSnapshot(locals, device_count, sent, failed) ==
    [ device_count |-> device_count,
      connected_devices |-> locals.connected,
      disconnected_devices |-> locals.disconnected,
      failed_devices |-> locals.failed,
      failed_or_disconnected |-> locals.failed_or_disconnected,
      active_channels |-> locals.connected,
      total_packets_sent |-> sent,
      total_packets_failed |-> failed,
      total_volume_mb |-> locals.total_mb,
      avg_send_rate_per_device |-> locals.avg_rate,
      bandwidth_mbps |-> locals.bandwidth_mbps,
      collapse_time |-> locals.collapse_time,
      failure_breakdown |-> locals.failure_breakdown,
      devices |-> locals.devices ]

\* snapshot() with no call of the collector between its statements.
simcore_snapshot(m, t) ==
    MetricsSnapshot(snapshot_locked(m, t), m.device_count, m.total_packets_sent,
                    m.total_packets_failed)

\* A new collector; a thread that reads snapshots is about to call snapshot().
InitCore ==
    /\ metrics = MetricsCollectorInit(Cardinality(Devices))
    /\ now = 0
    /\ stop_event = FALSE
    /\ last_call = NoCall
    /\ summary_pc = "off"
    /\ snap = None
    /\ summary_result = None
    /\ SimIdle
    /\ TelIdle
    /\ StartIdle
    /\ SinksIdle
    /\ call_args = None
    /\ call_result = None
    /\ OrchIdle
    /\ CollectorIdle
    /\ snapshot_pc = "idle"
    /\ snapshot_locals = None
    /\ snapshot_result = None
    /\ WriterIdle

\* What the calls of the collector leave alone.
nonCoreVars == <<stop_event, apiVars, simVars, telVars, startVars, sinkVars, call_args,
                 call_result, orchVars, collectorVars, writerVars>>

\* Every register_* and record_* call holds the lock while it changes the
\* collector: one step.  Time passes between calls.
RegisterDevice(d) ==
    /\ now < MaxOpsCore
    /\ metrics' = register_device(metrics, d)
    /\ now' = now + 1
    /\ UNCHANGED <<nonCoreVars, snapshotVars>>

\* on_connect with rc 0
RecordConnect(d) ==
    /\ now < MaxOpsCore
    /\ metrics' = record_connect(metrics, d)
    /\ now' = now + 1
    /\ UNCHANGED <<nonCoreVars, snapshotVars>>

RecordConnectFailure(d, rc) ==
    /\ now < MaxOpsCore
    /\ metrics' = record_connect_failure(metrics, d, rc, now + 1)
    /\ now' = now + 1
    /\ UNCHANGED <<nonCoreVars, snapshotVars>>

\* on_disconnect
RecordDisconnect(d, rc) ==
    /\ now < MaxOpsCore
    /\ metrics' = record_disconnect(metrics, d, rc, now + 1)
    /\ now' = now + 1
    /\ UNCHANGED <<nonCoreVars, snapshotVars>>

\* SimLoop.run, line 579: success is `info.rc == MQTT_ERR_SUCCESS`.
RecordPublish(d, size, rc) ==
    /\ now < MaxOpsCore
    /\ metrics' = record_publish(metrics, d, size, rc = 0, Some(rc), now + 1)
    /\ now' = now + 1
    /\ UNCHANGED <<nonCoreVars, snapshotVars>>

RecordException(d, exc) ==
    /\ now < MaxOpsCore
    /\ metrics' = record_exception(metrics, d, exc, now + 1)
    /\ now' = now + 1
    /\ UNCHANGED <<nonCoreVars, snapshotVars>>

\* snapshot(), lines 329-355: the body of `with self._lock`.
SnapshotLocked ==
    /\ snapshot_pc = "idle"
    /\ snapshot_locals' = Some(snapshot_locked(metrics, now))
    /\ snapshot_pc' = "read_sent"
    /\ UNCHANGED <<metrics, now, nonCoreVars, snapshot_result>>

\* snapshot(), line 365: self._total_packets_sent is read without the lock.
SnapshotReadSent ==
    /\ snapshot_pc = "read_sent"
    /\ snapshot_locals' = Some([sent |-> metrics.total_packets_sent] @@ snapshot_locals[1])
    /\ snapshot_pc' = "read_failed"
    /\ UNCHANGED <<metrics, now, nonCoreVars, snapshot_result>>

\* snapshot(), lines 366-373: self._total_packets_failed is read without the
\* lock and the MetricsSnapshot is returned.
SnapshotReturn ==
    /\ snapshot_pc = "read_failed"
    /\ snapshot_result' = Some(MetricsSnapshot(snapshot_locals[1], metrics.device_count,
                                               snapshot_locals[1].sent,
                                               metrics.total_packets_failed))
    /\ snapshot_locals' = None
    /\ snapshot_pc' = "idle"
    /\ UNCHANGED <<metrics, now, nonCoreVars>>

NextCore ==
    \/ \E d \in Devices : RegisterDevice(d)
    \/ \E d \in Devices : RecordConnect(d)
    \/ \E d \in Devices, rc \in ConnectRcs : RecordConnectFailure(d, rc)
    \/ \E d \in Devices, rc \in DisconnectRcs : RecordDisconnect(d, rc)
    \/ \E d \in Devices, b \in PayloadSizes, rc \in PublishRcs : RecordPublish(d, b, rc)
    \/ \E d \in Devices, e \in ExceptionClasses : RecordException(d, e)
    \/ SnapshotLocked
    \/ SnapshotReadSent
    \/ SnapshotReturn

SpecCore == InitCore /\ [][NextCore]_vars

\* ------------------------------------------------- claims, SpecCore
\* The status the collector keeps for device d (None before its first call).
StatusOf(d) ==
    IF d \in DOMAIN metrics.devices THEN Some(metrics.devices[d].status) ELSE None

\* C39: the connected set and the failed set are disjoint, a device is in the
\* connected set exactly when its status is connected and in the failed set
\* exactly when its status is failed, and a pending device is in neither.
C39_SetsAgreeWithStatus ==
    /\ metrics.connected \cap metrics.failed_devices = {}
    /\ \A d \in Devices :
          /\ d \in metrics.connected <=> StatusOf(d) = Some("connected")
          /\ d \in metrics.failed_devices <=> StatusOf(d) = Some("failed")
          /\ (d \in metrics.registered_devices /\ StatusOf(d) = Some("pending"))
                 => d \notin metrics.connected \cup metrics.failed_devices

\* A device that failed is connected again while a registered one has had no
\* other call.
C39_Witness ==
    /\ \E d \in metrics.connected : metrics.devices[d].total_failures > 0
    /\ \E d \in metrics.registered_devices : StatusOf(d) = Some("pending")

\* C40: the failures counted on the devices add up to the failures counted
\* by reason.
C40_FailuresCountedOnce ==
    SumOver([d \in DOMAIN metrics.devices |-> metrics.devices[d].total_failures],
            DOMAIN metrics.devices)
        = SumOver(metrics.failure_breakdown, DOMAIN metrics.failure_breakdown)

\* C35: the packet counts of a returned MetricsSnapshot are those the rate in
\* it was derived from, and no more packets failed than were sent.
C35_SnapshotIsOneState ==
    [][SnapshotReturn =>
          LET r == snapshot_result'[1]
          IN /\ r.total_packets_failed <= r.total_packets_sent
             /\ r.total_packets_sent - r.total_packets_failed
                    = snapshot_locals[1].success_packets]_vars

\* ------------------------------------------------- claims, SpecTelemetry
\* The run has ended on a stop request: main is through its finally block and
\* every SimLoop has returned.
RunStopped ==
    /\ tel_main = "done"
    /\ \A w \in Devices : loop_pc[w] = "exited"

\* C32: a run in which no failure was recorded and that ended on a stop
\* request has no collapse time.
C32_NoCollapseOnUserStop ==
    (RunStopped /\ metrics.failure_breakdown = EmptyMap) => metrics.collapse_time = None

\* ------------------------------------------------ simcore.MetricsWriter
\* MetricsWriter(..., interval=2.0) of run_telemetry.main, in clock ticks
WriterInterval == 2

\* status_getter of run_telemetry.main; stopping is what stop_signal.is_set()
\* returns.
status_getter(running, stopping) ==
    IF ~running THEN "starting" ELSE IF stopping THEN "stopping" ELSE "running"

\* MetricsSnapshot.to_dict(status=status): the payload of metrics.json.  The
\* `message` of `extra` and the wall-clock timestamp are left out.
to_dict(snapshot_, status) == [status |-> status] @@ snapshot_

\* The collector main has built, before any SimLoop runs.
NewCollector == registered(MetricsCollectorInit(Cardinality(Devices)), DeviceList)

\* The run is under way: every SimLoop has connected, passed the barrier and
\* taken the start time, main is in its polling loop, the MetricsWriter thread
\* is in its first wait and metrics.json holds what main wrote at line 87.
\* The SimLoop threads are followed through their record_publish calls only.
InitWriter ==
    /\ metrics = record_connect(record_connect(NewCollector, DeviceList[1]), DeviceList[2])
    /\ now = 0
    /\ stop_event = FALSE
    /\ last_call = NoCall
    /\ summary_pc = "off"
    /\ snap = None
    /\ summary_result = None
    /\ SimIdle
    /\ publish_interval = 1
    /\ clock = 0
    /\ tel_main = "poll"
    /\ loop_pc = [w \in Devices |-> "loop_top"]
    /\ barrier_count = Parties
    /\ barrier_index = [p \in Threads |->
                           IF p = "main" THEN Some(0)
                           ELSE IF p = DeviceList[1] THEN Some(1) ELSE Some(2)]
    /\ running_event = TRUE
    /\ coord_event = TRUE
    /\ coord_start_time = LeadTime
    /\ release_calls = 1
    /\ flag_file = None
    /\ stop_signal_event = FALSE
    /\ start_time = [w \in Devices |-> Some(LeadTime)]
    /\ next_tick = [w \in Devices |-> LeadTime]
    /\ tick_index = [w \in Devices |-> 0]
    /\ StartIdle
    /\ SinksIdle
    /\ call_args = None
    /\ call_result = None
    /\ OrchIdle
    /\ CollectorIdle
    /\ snapshot_pc = "off"
    /\ snapshot_locals = None
    /\ snapshot_result = None
    /\ writer_pc = "waiting"
    /\ writer_deadline = WriterInterval
    /\ writer_local = None
    /\ stop_local = None
    /\ writer_stop_event = FALSE
    /\ tmp_file = None
    /\ metrics_file = Some(to_dict(simcore_snapshot(NewCollector, 0), "starting"))

\* What the steps of the writer thread and of MetricsWriter.stop leave alone.
nonWriterVars == <<metrics, now, stop_event, apiVars, simVars, startVars, sinkVars,
                   call_args, call_result, orchVars, collectorVars, snapshotVars>>
telRunVars == <<publish_interval, clock, loop_pc, barrier_count, barrier_index,
                running_event, coord_event, coord_start_time, release_calls, flag_file,
                start_time, next_tick, tick_index>>

\* MetricsWriter.run and write_snapshot, lines 433-439: the wait times out and
\* the snapshot and the status are taken.
WriterSnapshot ==
    /\ writer_pc = "waiting"
    /\ ~writer_stop_event
    /\ clock >= writer_deadline
    /\ stop_signal_event' = check_flag(stop_signal_event, flag_file)
    /\ writer_local' = Some(to_dict(simcore_snapshot(metrics, clock),
                                    status_getter(running_event,
                                                  check_flag(stop_signal_event, flag_file))))
    /\ writer_pc' = "write_text"
    /\ UNCHANGED <<nonWriterVars, telRunVars, tel_main, writer_deadline, stop_local,
                   writer_stop_event, tmp_file, metrics_file>>

\* write_json_atomic on the writer thread, line 608: tmp_path.write_text
WriterWriteText ==
    /\ writer_pc = "write_text"
    /\ tmp_file' = writer_local
    /\ writer_pc' = "replace"
    /\ UNCHANGED <<nonWriterVars, telRunVars, tel_main, stop_signal_event, writer_deadline,
                   writer_local, stop_local, writer_stop_event, metrics_file>>

\* write_json_atomic on the writer thread, line 609: tmp_path.replace(path).
\* Without the temporary file it raises FileNotFoundError, which ends the thread.
WriterReplace ==
    /\ writer_pc = "replace"
    /\ IF tmp_file = None
       THEN /\ writer_pc' = "exited"
            /\ UNCHANGED <<tmp_file, metrics_file, writer_deadline>>
       ELSE /\ metrics_file' = tmp_file
            /\ tmp_file' = None
            /\ writer_pc' = "waiting"
            /\ writer_deadline' = clock + WriterInterval
    /\ UNCHANGED <<nonWriterVars, telRunVars, tel_main, stop_signal_event, writer_local,
                   stop_local, writer_stop_event>>

\* MetricsWriter.run, line 433: the wait returns True, run returns.
WriterExit ==
    /\ writer_pc = "waiting"
    /\ writer_stop_event
    /\ writer_pc' = "exited"
    /\ UNCHANGED <<nonWriterVars, telRunVars, tel_main, stop_signal_event, writer_deadline,
                   writer_local, stop_local, writer_stop_event, tmp_file, metrics_file>>

\* main, lines 139-140: every worker.join(timeout=2) has returned.
MainJoined ==
    /\ tel_main = "joining"
    /\ tel_main' = "writer_stop"
    /\ UNCHANGED <<nonWriterVars, telRunVars, stop_signal_event, writerVars>>

\* MetricsWriter.stop, lines 443-445: the event is set, the snapshot and the
\* final status are taken.
StopSnapshot ==
    /\ tel_main = "writer_stop"
    /\ writer_stop_event' = TRUE
    /\ stop_local' = Some(to_dict(simcore_snapshot(metrics, clock), "stopped"))
    /\ tel_main' = "stop_write_text"
    /\ UNCHANGED <<nonWriterVars, telRunVars, stop_signal_event, writer_pc, writer_deadline,
                   writer_local, tmp_file, metrics_file>>

\* write_json_atomic in stop(), line 608
StopWriteText ==
    /\ tel_main = "stop_write_text"
    /\ tmp_file' = stop_local
    /\ tel_main' = "stop_replace"
    /\ UNCHANGED <<nonWriterVars, telRunVars, stop_signal_event, writer_pc, writer_deadline,
                   writer_local, stop_local, writer_stop_event, metrics_file>>

\* write_json_atomic in stop(), line 609; FileNotFoundError leaves main's
\* finally block.
StopReplace ==
    /\ tel_main = "stop_replace"
    /\ IF tmp_file = None
       THEN /\ tel_main' = "raised"
            /\ UNCHANGED <<tmp_file, metrics_file>>
       ELSE /\ metrics_file' = tmp_file
            /\ tmp_file' = None
            /\ tel_main' = "stop_returned"
    /\ UNCHANGED <<nonWriterVars, telRunVars, stop_signal_event, writer_pc, writer_deadline,
                   writer_local, stop_local, writer_stop_event>>

\* main, line 142: stop_signal.clear_flag(), and the rest of the finally block.
MainClearFlag ==
    /\ tel_main = "stop_returned"
    /\ flag_file' = None
    /\ tel_main' = "done"
    /\ UNCHANGED <<nonWriterVars, publish_interval, clock, loop_pc, barrier_count,
                   barrier_index, running_event, coord_event, coord_start_time,
                   release_calls, start_time, next_tick, tick_index, stop_signal_event,
                   writerVars>>

NextWriter ==
    \/ Tick
    \/ CreateStopFlag
    \/ MainPoll
    \/ MainInterrupt
    \/ MainTrip
    \/ MainJoined
    \/ StopSnapshot
    \/ StopWriteText
    \/ StopReplace
    \/ MainClearFlag
    \/ WriterSnapshot
    \/ WriterWriteText
    \/ WriterReplace
    \/ WriterExit
    \/ \E d \in Devices, b \in PayloadSizes : RecordPublish(d, b, 0)

SpecWriter == InitWriter /\ [][NextWriter]_vars

\* ------------------------------------------------- claims, SpecWriter
\* C36: once MetricsWriter.stop has returned, metrics.json holds the payload
\* stop() wrote, with the status "stopped".
C36_FinalSnapshotStays ==
    tel_main \in {"stop_returned", "done"} =>
        /\ metrics_file = stop_local
        /\ metrics_file[1].status = "stopped"

\* ------------------------------- the devices and the files of the shards
\* Tokens in the tokens file, and the seconds of the clock in which the shard
\* processes reach run_simulation.
FileLen == MaxFleet + 1
StartSeconds == {0, 1}

\* Python's `a or b` on an Optional[int] and an int: None and 0 are falsy.
IntOr(a, b) == IF a /= None /\ a[1] /= 0 THEN a[1] ELSE b

\* load_tokens_from_file: the device ids, in the order of the list returned.
load_tokens_from_file == [i \in 1 .. FileLen |-> <<"file", i - 1>>]

\* generate_tokens(prefix, count, start_id): the ids f"{prefix}{idx}"
generate_tokens(count, start_id) == [i \in 1 .. count |-> <<"prefix", start_id + i - 1>>]

\* select_devices
select_devices(tokens, device_count, start_id, override_count) ==
    LET total_to_take == IntOr(override_count, IntOr(Some(device_count),
                                                      Len(tokens) - start_id))
        end_index == start_id + total_to_take
    IN IF start_id < 0 THEN Raise
       ELSE IF start_id >= Len(tokens) THEN Raise
       ELSE IF total_to_take <= 0 THEN Raise
       ELSE IF end_index > Len(tokens) THEN Raise
       ELSE Return(SubSeq(tokens, start_id + 1, end_index))

\* prepare_selected_devices: what it returns or raises, and args as it leaves
\* them.  a.tokens_file says that the file of --tokens-file exists.
prepare_selected_devices(a) ==
    IF a.tokens_file
    THEN [args |-> a,
          selected |-> select_devices(load_tokens_from_file, a.device_count, a.start_id,
                                      a.count)]
    ELSE IF a.token_prefix
    THEN LET synthetic_count == IntOr(a.count, a.device_count)
             base_tokens == generate_tokens(synthetic_count, a.start_id)
         IN IF synthetic_count = 0
            THEN [args |-> a, selected |-> Raise]
            ELSE [args |-> [a EXCEPT !.device_count = synthetic_count,
                                     !.start_id = 0,
                                     !.count = Some(synthetic_count)],
                  selected |-> select_devices(base_tokens, synthetic_count, 0,
                                              Some(synthetic_count))]
    ELSE [args |-> a, selected |-> Raise]

\* run_simulation, lines 747-753: the session id the two file names are built
\* from; second is utcnow() cut to the second.
session_id(second, a, selected) ==
    IF a.worker THEN <<second, a.start_id, Len(selected)>> ELSE <<second>>

\* orchestrate, lines 1127-1134: the arguments of shard k (counted from 0);
\* a is args after prepare_selected_devices.
shard_args(a, total_devices, k) ==
    LET split == [max_clients_per_process |-> a.max_clients_per_process,
                  total_devices |-> total_devices]
        offset == shard_offset(split, k)
    IN [a EXCEPT !.start_id = a.start_id + offset,
                 !.count = Some(shard_count(split, offset)),
                 !.device_count = shard_count(split, offset),
                 !.worker = TRUE]

\* Shards launched for total_devices devices: the length of
\* range(0, total_devices, max_per_process).
shards_of(a, total_devices) ==
    (total_devices + max_per_process(a) - 1) \div max_per_process(a)

\* A shard process: run_simulation up to the names of its files.
run_shard(a, second) ==
    LET prepared == prepare_selected_devices(a)
    IN IF prepared.selected.raised
       THEN [raised |-> TRUE, devices |-> <<>>, session |-> <<>>]
       ELSE [raised |-> FALSE,
             devices |-> prepared.selected.value,
             session |-> session_id(second, prepared.args, prepared.selected.value)]

\* orchestrate on Windows with the fleet split: the selection of the
\* orchestrator and what each shard process selects and names.
orchestrate_shards(a, seconds) ==
    LET prepared == prepare_selected_devices(a)
    IN IF prepared.selected.raised
       THEN [raised |-> TRUE, selected |-> <<>>, shards |-> <<>>]
       ELSE LET total_devices == Len(prepared.selected.value)
            IN [raised |-> FALSE,
                selected |-> prepared.selected.value,
                shards |-> [k \in 1 .. shards_of(prepared.args, total_devices) |->
                               run_shard(shard_args(prepared.args, total_devices, k - 1),
                                         seconds[k])]]

\* The command lines: --count absent or given, --device-count (DEVICE_COUNT of
\* the environment by default), --start-id, the tokens file present or not,
\* --token-prefix given or not, --max-clients-per-process.
CountInputs == {None} \cup {Some(n) : n \in 1 .. MaxFleet}
DeviceCountInputs == {0, MaxFleet}
StartIdInputs == 0 .. 2

InitShards ==
    /\ metrics = MetricsAggregatorInit(0)
    /\ now = 0
    /\ stop_event = FALSE
    /\ last_call = NoCall
    /\ summary_pc = "off"
    /\ snap = None
    /\ summary_result = None
    /\ SimIdle
    /\ TelIdle
    /\ StartIdle
    /\ SinksIdle
    /\ call_args \in {Some([tokens_file |-> f, token_prefix |-> p, start_id |-> b,
                            count |-> c, device_count |-> n,
                            max_clients_per_process |-> cap, worker |-> FALSE]) :
                         f \in BOOLEAN, p \in BOOLEAN, b \in StartIdInputs,
                         c \in CountInputs, n \in DeviceCountInputs, cap \in 1 .. MaxCap}
    /\ call_result = None
    /\ OrchIdle
    /\ CollectorIdle
    /\ CoreIdle

\* orchestrate launches the shards and every shard reaches the point where
\* its files are named.
LaunchShards ==
    /\ call_result = None
    /\ \E seconds \in [1 .. FileLen -> StartSeconds] :
          call_result' = Some(orchestrate_shards(call_args[1], seconds))
    /\ UNCHANGED <<nonAuxVars, call_args>>

NextShards == LaunchShards

SpecShards == InitShards /\ [][NextShards]_vars

\* ------------------------------------------------- claims, SpecShards
\* orchestrate has split the fleet over more than one shard and every shard
\* has selected its devices.
SplitRun ==
    /\ call_result /= None
    /\ ~call_result[1].raised
    /\ Len(call_result[1].shards) > 1
    /\ \A k \in DOMAIN call_result[1].shards : ~call_result[1].shards[k].raised

\* The ids of a list of devices.
Ids(devices) == {devices[i] : i \in DOMAIN devices}

\* C37: every shard simulates its slice of the orchestrator's selection, no
\* device belongs to two shards, and the shards together simulate the selection.
C37_ShardsSimulateTheSelection ==
    SplitRun =>
        LET r == call_result[1]
            cap == max_per_process(call_args[1])
        IN /\ \A k \in DOMAIN r.shards :
                  r.shards[k].devices
                      = SubSeq(r.selected, (k - 1) * cap + 1, Min(k * cap, Len(r.selected)))
           /\ \A j, k \in DOMAIN r.shards :
                  j /= k => Ids(r.shards[j].devices) \cap Ids(r.shards[k].devices) = {}
           /\ UNION {Ids(r.shards[k].devices) : k \in DOMAIN r.shards} = Ids(r.selected)

\* C38: two shards of one run have different session ids, so different
\* events files and metrics files.
C38_ShardFilesDistinct ==
    SplitRun =>
        \A j, k \in DOMAIN call_result[1].shards :
            j /= k => call_result[1].shards[j].session /= call_result[1].shards[k].session


\* ------------------------------- a failing event log (SpecSinksFaulty)
\* One iteration of the loop of AsyncJsonLogger._writer in which afp.write
\* (or afp.flush) raises OSError: the exception leaves the `async with` and
\* ends the writer's task, which keeps it as its result. The record taken
\* from the queue is lost and nothing takes the later ones.
EvWriteFails ==
    /\ MainAwaiting
    /\ ev_writer_pc = "open"
    /\ ev_queue /= <<>>
    /\ Head(ev_queue) /= None
    /\ ev_queue' = Tail(ev_queue)
    /\ ev_writer_pc' = "failed"
    /\ UNCHANGED <<nonSinkVars, pc, connected, disconnect_reason, backoff, sleep_for,
                   pending_exc, message_sequence, attempts, fail_streak, open_sessions,
                   ev_logged, ev_file, csv_queue, csv_logged, csv_writer_pc, csv_file,
                   reporter_pc, reporter_ticks>>

\* `await self._task` of AsyncJsonLogger.close (line 298) on a writer task
\* that ended with an exception: the await raises it in run_simulation at
\* line 885, which has no handler; lines 886-893 are not run.
EventsCloseRaises ==
    /\ main_pc = "close_events"
    /\ ev_writer_pc = "failed"
    /\ main_pc' = "raised"
    /\ UNCHANGED <<metrics, now, stop_event, apiVars, config, stage, launched, stop_cause,
                   telVars, startVars, auxVars, workerVars, sinkVars>>

\* The runs of SpecSinks, in which a write of the event log may fail.
NextSinksFaulty ==
    \/ NextSinks
    \/ EvWriteFails
    \/ EventsCloseRaises

SpecSinksFaulty == InitSinks /\ [][NextSinksFaulty]_vars

\* ----------------------------------------------- claims, SpecSinksFaulty
\* The writer of the event log has died on a write.
EventWriterFailed == ev_writer_pc = "failed"

\* C34: a failing write of an event line does not end the shard: the workers
\* keep publishing, later log() calls neither block nor raise, and
\* run_simulation still goes through its shutdown (final CSV row, sinks
\* closed) without raising.
C34_EventWriteFailureKeepsShutdown ==
    EventWriterFailed => main_pc /= "raised"


\* ------------------------------------ the end of a run (SpecSinksFair)
\* The arguments of the runs of SpecSinksFair: two stages with a dwell
\* between them.
DwellConfig ==
    [backoff_base |-> 0, backoff_max |-> 0, ramp_sequence |-> <<1, 2>>, ramp_wait |-> 1]

\* The steps of run_simulation itself, in the runs that are cancelled (if
\* ever) before the dwell after the first stage has passed.
MainStep ==
    \/ RampStage
    \/ DwellStopped
    \/ MainWaitDone
    \/ GatherDone
    \/ Shutdown
    \/ ReporterJoined
    \/ EventsClosed
    \/ CsvClosed

\* The steps of the task of one DeviceWorker: each connect, publish and close
\* returns or raises, each timer fires.
WorkerStep(w) ==
    \/ LoopTop(w)
    \/ ConnectOK(w)
    \/ ConnectFail(w, "mqtt_error:MqttError")
    \/ \E l \in PublishLatencies, b \in PayloadSizes : PublishOK(w, l, b)
    \/ PublishMqttError(w)
    \/ WaitTimeout(w)
    \/ WaitStopped(w)
    \/ Close(w)
    \/ BackoffDone(w)

\* The steps of the tasks of the two writers.
EvWriterStep == EvWriterOpen \/ EvWrite
CsvWriterStep == CsvWriterOpen \/ CsvWriteHeader \/ CsvWrite

\* What the event loop runs: run_simulation, the workers, the reporter and
\* the two writers.
LoopStep ==
    \/ MainStep
    \/ \E w \in Devices : WorkerStep(w)
    \/ EvWriterStep
    \/ CsvWriterStep
    \/ ReporterFinal

NextSinksFair ==
    \/ LoopStep
    \/ DurationElapsed
    \/ SignalStop

\* The event loop does not idle while a task is ready to run. Nothing
\* obliges the duration timer or a signal to come.
SpecSinksFair ==
    /\ InitSinksWith(DwellConfig)
    /\ [][NextSinksFair]_vars
    /\ WF_vars(LoopStep)

\* ------------------------------------------------ claims, SpecSinksFair
\* run_simulation has returned after its whole shutdown: every worker task
\* has ended, the reporter has logged its final snapshot and ended, both
\* writers have written what was queued and closed their files.
RunCompleted ==
    /\ main_pc = "done"
    /\ \A w \in Tasks : pc[w] = "done"
    /\ reporter_pc = "done"
    /\ csv_logged /= <<>>
    /\ ev_writer_pc = "done" /\ ev_queue = <<>>
    /\ csv_writer_pc = "done" /\ csv_queue = <<>>
    /\ Len(csv_file) = Len(csv_logged) + 1

====
